---- MODULE Spec2Model ----
(***************************************************************************)
(* Verification model of shipyard_app: the AppBuilder composition pass     *)
(* (src/src/app_builder.rs) and the cycle validator App::add_cycle         *)
(* (src/src/app_add_cycle.rs).                                             *)
(***************************************************************************)
EXTENDS Naturals, Integers, Sequences, FiniteSets, TLC

(***************************************************************************)
(* Bounds of the model.                                                    *)
(***************************************************************************)
\* number of calls the application makes on the AppBuilder before finish
MaxTopOps == 3
\* depth of nested Plugin::build calls that is explored
MaxDepth == 3
\* number of workloads handed to one add_cycle call
MaxUnits == 2
\* number of times a composed cycle is run before the next one is declared
MaxInvocations == 2
\* number of claims made on one association ledger
MaxClaims == 3
\* number of add_cycle calls made on one App
MaxCalls == 2
\* accesses to one TrackedValue
MaxAccesses == 4
\* calls made on the component storages
MaxStorageOps == 5

VARIABLES
    \* ---- AppBuilder (app_builder.rs:54-69) ----
    track_current_plugin,      \* PluginId: Vec of plugin type names
    track_type_names,          \* TypeId -> type name
    track_uniques,             \* TypeId -> Seq(PluginId)
    track_unique_dependencies, \* TypeId -> Seq(<<PluginId, reason>>)
    track_update_packed,       \* TypeId -> Seq(<<PluginId, reason>>)
    stage_workloads,           \* Workloads.ordered: Seq([name, systems])
    world,                     \* the shipyard World the builder owns
    callstack,                 \* Plugin::build calls in progress: Seq([plugin, pc])
    top_ops,                   \* calls made so far by the application itself
    phase,                     \* "composing" | "finished" | "panicked"
    signal,                    \* the panic raised, or NoSignal
    track_added_plugins,       \* plugin type -> PluginId it was first added under
    trace_log,                 \* the trace! events of add_plugin
    warn_log,                  \* the warn! events of finish
    unique_log,                \* the trace! events of finish, one per provided unique
    app,                       \* the App returned by finish, or NoApp
    \* ---- App::add_cycle (app_add_cycle.rs:37-136) ----
    cycle,                     \* the workloads given to add_cycle
    cycle_result,              \* the Result of add_cycle on them, or NoResult
    cycle_runs,                \* per run of the composed cycle, the workloads run
    \* ---- an association ledger on its own ----
    assoc_ledger,              \* a TypeIdBuckets
    ledger_returned,           \* what the latest associate returned, or NoResult
    \* ---- add_cycle called time and again on one App ----
    again_inputs,              \* the workloads given to each call so far
    again_result,              \* the Result of the latest call, or NoResult
    again_locals,              \* its local variables as they were when it returned
    \* ---- a TrackedValue (tracked_unique.rs:9) ----
    tracked_value,             \* TrackedValue<T>: [state, value]
    tracked_ops,               \* the accesses made to it so far
    \* ---- component storages and the views over them ----
    v_t,                       \* the storage of the read component T (T1)
    v_t2,                      \* the storage of the read component T2
    vm_u,                      \* the storage of the write component U
    upd_last,                  \* the latest call if it was made through a view
    storage_ops                \* calls made so far

builder_vars == <<track_current_plugin, track_type_names, track_uniques,
                  track_unique_dependencies, track_update_packed,
                  stage_workloads, world, callstack, top_ops, phase, signal,
                  trace_log,
                  track_added_plugins, warn_log, unique_log, app>>
cycle_vars == <<cycle, cycle_result, cycle_runs>>
ledger_vars == <<assoc_ledger, ledger_returned>>
again_vars == <<again_inputs, again_result, again_locals>>
tracked_vars == <<tracked_value, tracked_ops>>
storage_vars == <<v_t, v_t2, vm_u, upd_last, storage_ops>>
vars == <<builder_vars, cycle_vars, ledger_vars, again_vars, tracked_vars, storage_vars>>

\* what the steps of one component leave alone
outside_builder == <<cycle_vars, ledger_vars, again_vars, tracked_vars, storage_vars>>
outside_cycle == <<builder_vars, ledger_vars, again_vars, tracked_vars, storage_vars>>
outside_ledger == <<builder_vars, cycle_vars, again_vars, tracked_vars, storage_vars>>
outside_again == <<builder_vars, cycle_vars, ledger_vars, tracked_vars, storage_vars>>
outside_tracked == <<builder_vars, cycle_vars, ledger_vars, again_vars, storage_vars>>
outside_storage == <<builder_vars, cycle_vars, ledger_vars, again_vars, tracked_vars>>

(***************************************************************************)
(* Helpers: partial maps (HashMap) as functions on the set of their keys.  *)
(***************************************************************************)
EmptyMap == [k \in {} |-> {}]
Put(m, k, v) == [x \in (DOMAIN m) \cup {k} |-> IF x = k THEN v ELSE m[x]]
Range(s) == {s[i] : i \in DOMAIN s}
\* every order in which a HashMap may hand out the keys in S
Orders(S) == {s \in [1..Cardinality(S) -> S] : Range(s) = S}
Last(s) == s[Len(s)]
Count(s, x) == Cardinality({i \in DOMAIN s : s[i] = x})

NoSignal == [kind |-> "none"]
NoApp == [kind |-> "none"]
NoResult == [kind |-> "none"]

(***************************************************************************)
(* Types.  A TypeId is an opaque token; type_name gives its display name.  *)
(***************************************************************************)
TypeIdA == "TypeId(A)"
TypeIdB == "TypeId(B)"
TypeIdEvents == "TypeId(Events<E>)"
TypeIdTracked == "TypeId(TrackedValue<B>)"
TypeIds == {TypeIdA, TypeIdB, TypeIdEvents, TypeIdTracked}

type_name(t) ==
    CASE t = TypeIdA -> "A"
      [] t = TypeIdB -> "B"
      [] t = TypeIdEvents -> "Events<E>"
      [] t = TypeIdTracked -> "TrackedValue<B>"

(***************************************************************************)
(* Stages (app_builder.rs:148-156).                                        *)
(***************************************************************************)
DefaultStages == <<"FIRST", "EVENT_UPDATE", "PRE_UPDATE", "UPDATE", "POST_UPDATE", "LAST">>

\* Workloads::add_stage (app_builder.rs:92-100)
Workloads_add_stage(ordered, stage) ==
    IF \E i \in DOMAIN ordered : ordered[i].name = stage
    THEN ordered
    ELSE Append(ordered, [name |-> stage, systems |-> <<>>])

RECURSIVE AddStages(_, _)
AddStages(ordered, stages) ==
    IF stages = <<>> THEN ordered
    ELSE AddStages(Workloads_add_stage(ordered, Head(stages)), Tail(stages))

\* AppBuilder::add_default_stages without the startup-stages feature
add_default_stages == AddStages(<<>>, DefaultStages)

\* Workloads::add_systems_to_stage (app_builder.rs:102-125): the apply_fn is
\* taken by the first stage of that name; it is still there afterwards
\* exactly when no stage has the name, and then the call panics.
StageKnown(ordered, stage_name) ==
    \E i \in DOMAIN ordered : ordered[i].name = stage_name

FirstStage(ordered, stage_name) ==
    CHOOSE i \in DOMAIN ordered :
        /\ ordered[i].name = stage_name
        /\ \A j \in DOMAIN ordered : ordered[j].name = stage_name => i <= j

\* a bug add_systems_to_stage could have: the function is applied to the
\* first stage of the list whatever its name
Workloads_add_systems_to_stage_first(ordered, stage_name, system) ==
    IF \E i \in DOMAIN ordered : ordered[i].name = stage_name
    THEN [ordered EXCEPT ![1].systems = Append(@, system)]
    ELSE ordered

Workloads_add_systems_to_stage(ordered, stage_name, system) ==
    IF StageKnown(ordered, stage_name)
    THEN [ordered EXCEPT ![FirstStage(ordered, stage_name)].systems = Append(@, system)]
    ELSE ordered

(***************************************************************************)
(* Plugins.  A plugin is identified by its type name; its build callback   *)
(* is the sequence of AppBuilder calls it makes.                           *)
(***************************************************************************)
OpAddPlugin(p) == [op |-> "add_plugin", plugin |-> p]
OpAddUnique(t, v) == [op |-> "add_unique", type |-> t, value |-> v]
OpAddUniqueDependency(t, r) == [op |-> "add_unique_dependency", type |-> t, reason |-> r]
OpUpdatePack(t, r) == [op |-> "update_pack", type |-> t, reason |-> r]
OpAddSystemsToStage(s, sys) == [op |-> "add_systems_to_stage", stage |-> s, system |-> sys]
OpDependOnPlugin(p, r) == [op |-> "depend_on_plugin", plugin |-> p, reason |-> r]

\* RxA1, RxADup, OtherPlugin (app_add_cycle.rs:264-287), EventPlugin
\* (event_plugin.rs:16-28) and TrackedUniquePlugin (tracked_unique.rs:171-175)
\* are the crate's own; the others are application plugins that nest other
\* plugins, add themselves, touch all three ledgers, name a stage that does
\* not exist, or depend on another plugin.
Plugins == {"RxA1", "RxADup", "OtherPlugin", "EventPlugin<E>", "TrackedUniquePlugin<B>",
            "Outer", "Inner", "SelfAdd", "CycA", "CycB", "DupAll", "BadStage",
            "NeedsRxA1", "AddsDup", "NeedsFirst"}

\* Plugin::build of each plugin type
Build(p) ==
    CASE p = "RxA1" -> <<OpUpdatePack(TypeIdA, "Rx1")>>
      [] p = "RxADup" -> <<OpUpdatePack(TypeIdA, "RxDup")>>
      [] p = "OtherPlugin" -> <<>>
      [] p = "EventPlugin<E>" ->
            <<OpAddUnique(TypeIdEvents, "default"),
              OpAddSystemsToStage("EVENT_UPDATE", "update_events<E>")>>
      [] p = "TrackedUniquePlugin<B>" -> <<OpAddUnique(TypeIdTracked, "New")>>
      [] p = "Outer" ->
            <<OpAddPlugin("Inner"), OpAddUniqueDependency(TypeIdB, "outer needs B")>>
      [] p = "Inner" ->
            <<OpAddUniqueDependency(TypeIdA, "inner needs A"), OpAddUnique(TypeIdB, "inner")>>
      [] p = "SelfAdd" -> <<OpAddPlugin("SelfAdd")>>
      [] p = "CycA" -> <<OpAddPlugin("CycB")>>
      [] p = "CycB" -> <<OpAddPlugin("CycA")>>
      [] p = "DupAll" ->
            <<OpAddUnique(TypeIdB, "dup"), OpAddUniqueDependency(TypeIdB, "dup needs B"),
              OpUpdatePack(TypeIdB, "Dup")>>
      [] p = "BadStage" -> <<OpAddSystemsToStage("NO_SUCH_STAGE", "sys")>>
      [] p = "NeedsRxA1" -> <<OpDependOnPlugin("RxA1", "needs RxA1")>>
      [] p = "AddsDup" -> <<OpAddPlugin("RxADup")>>
      [] p = "NeedsFirst" -> <<OpAddUniqueDependency(TypeIdB, "needed before provided"),
                               OpAddUnique(TypeIdB, "own")>>

\* Plugin::can_add_multiple_times: true where the impl overrides it
can_add_multiple_times(p) == p \in {"RxADup", "DupAll"}

\* the calls the application itself may make on the builder
TopLevelOps ==
    {OpAddPlugin(p) : p \in Plugins}
    \cup {OpAddUnique(TypeIdA, "v1"), OpAddUnique(TypeIdA, "v2"), OpAddUnique(TypeIdB, "v1")}
    \cup {OpAddUniqueDependency(t, "app needs it") : t \in {TypeIdA, TypeIdB}}
    \cup {OpUpdatePack(t, "app") : t \in {TypeIdA, TypeIdB}}
    \cup {OpAddSystemsToStage(s, "sys") : s \in {"UPDATE", "LAST", "NO_SUCH_STAGE"}}
    \cup {OpDependOnPlugin(p, "app needs it") : p \in {"RxA1", "Inner"}}

(***************************************************************************)
(* Control: which AppBuilder call comes next.                              *)
(***************************************************************************)
InBuild == callstack # <<>>

\* a bug the builder could have: finish borrows the builder and leaves it usable
BuilderOwned_after_finish == phase \in {"composing", "finished"}

\* app_builder.rs:169: finish takes the builder by value, and a panic ends
\* the composition: calls are made only on a builder that is still owned
BuilderOwned == phase = "composing"
TopFrame == Last(callstack)

\* the call(s) that may happen now: the next statement of the build callback
\* in progress, or any call by the application when no build is in progress
CurrentOps ==
    IF ~BuilderOwned THEN {}
    ELSE IF InBuild
         THEN IF TopFrame.pc <= Len(Build(TopFrame.plugin))
              THEN {Build(TopFrame.plugin)[TopFrame.pc]}
              ELSE {}
         ELSE IF top_ops < MaxTopOps THEN TopLevelOps ELSE {}

\* the caller moves on to its next statement
Advanced ==
    IF InBuild
    THEN [callstack EXCEPT ![Len(callstack)].pc = @ + 1]
    ELSE callstack
AdvancedTop == IF InBuild THEN top_ops ELSE top_ops + 1

\* a panic unwinds every Plugin::build and add_plugin call in progress; no
\* statement of theirs runs any more (app_builder.rs:514-516 has no guard
\* object whose drop would pop track_current_plugin)
Unwound == <<>>

\* AppBuilder::tracked_type_id_of (app_builder.rs:259-267)
\* a bug the registry could have: recording a type drops the others
tracked_type_id_of_forgetful(names, t) == Put(EmptyMap, t, type_name(t))

\* a bug the registry could have: only the first type it sees gets a name
tracked_type_id_of_first_type(names, t) ==
    IF names = EmptyMap THEN Put(names, t, type_name(t)) ELSE names

tracked_type_id_of(names, t) ==
    IF t \in DOMAIN names THEN names ELSE Put(names, t, type_name(t))

\* a bug PluginId could have: pop leaves the frame in place
PluginId_pop_nothing(id) == id

\* a bug a claim could have: its owner is only the plugin being built
PluginId_clone_innermost(id) == IF id = <<>> THEN id ELSE <<Last(id)>>

\* self.track_current_plugin.clone() (app_builder.rs:275, 280, 305, 320): the
\* owner of a claim is a copy of the whole path
PluginId_clone(id) == id

\* PluginId::push / PluginId::pop (app_builder.rs:20-27)
PluginId_push(id, p) == Append(id, p)
PluginId_pop(id) == IF id = <<>> THEN id ELSE SubSeq(id, 1, Len(id) - 1)

\* entry(k).or_default().push(v) on a HashMap<TypeId, Vec<_>>
EntryPush(m, k, v) == Put(m, k, Append(IF k \in DOMAIN m THEN m[k] ELSE <<>>, v))

BuilderInit ==
    /\ track_current_plugin = <<>>
    /\ track_type_names = EmptyMap
    /\ track_uniques = EmptyMap
    /\ track_unique_dependencies = EmptyMap
    /\ track_update_packed = EmptyMap
    /\ stage_workloads = add_default_stages
    /\ world = [uniques |-> EmptyMap, update_packed |-> {}, workloads |-> <<>>]
    /\ callstack = <<>>
    /\ top_ops = 0
    /\ phase = "composing"
    /\ signal = NoSignal
    /\ trace_log = <<>>
    /\ track_added_plugins = EmptyMap
    /\ warn_log = {}
    /\ unique_log = {}
    /\ app = NoApp

CycleIdle ==
    /\ cycle = <<>>
    /\ cycle_result = NoResult
    /\ cycle_runs = <<>>

(***************************************************************************)
(* AppBuilder operations.                                                  *)
(***************************************************************************)
\* app_builder.rs:509-513: add_plugin looks at nothing before it pushes the
\* plugin and calls its build
AddPluginAccepts(p) == TRUE

\* AppBuilder::add_plugin (app_builder.rs:509-514): push, enter build.  The
\* nesting is followed to MaxDepth; the code itself nests without limit.
AddPlugin(p) ==
    /\ OpAddPlugin(p) \in CurrentOps
    /\ Len(callstack) < MaxDepth
    /\ AddPluginAccepts(p)
    /\ track_current_plugin' = PluginId_push(track_current_plugin, p)
    /\ callstack' = Append(Advanced, [plugin |-> p, pc |-> 1])
    /\ top_ops' = AdvancedTop
    /\ UNCHANGED <<track_type_names, track_uniques, track_unique_dependencies,
                   track_update_packed, stage_workloads, world, phase, signal,
                   trace_log, track_added_plugins, warn_log, unique_log, app, outside_builder>>

\* a bug the added-plugins record could have: every add of a plugin type
\* records the identity anew
record_added_latest(added, p, id) == Put(added, p, id)

\* the added-plugins record keeps, for a plugin type, the identity under which
\* it was first added
record_added(added, p, id) == IF p \in DOMAIN added THEN added ELSE Put(added, p, id)

\* AppBuilder::add_plugin (app_builder.rs:515-517): build returned; trace, pop
AddPluginReturn ==
    /\ BuilderOwned
    /\ InBuild
    /\ TopFrame.pc > Len(Build(TopFrame.plugin))
    /\ trace_log' = Append(trace_log, track_current_plugin)
    /\ track_added_plugins' =
           record_added(track_added_plugins, TopFrame.plugin, track_current_plugin)
    /\ track_current_plugin' = PluginId_pop(track_current_plugin)
    /\ callstack' = SubSeq(callstack, 1, Len(callstack) - 1)
    /\ UNCHANGED <<track_type_names, track_uniques, track_unique_dependencies,
                   track_update_packed, stage_workloads, world, top_ops, phase,
                   signal, warn_log, unique_log, app, outside_builder>>

\* World::add_unique as called at app_builder.rs:300.  The World is
\* shipyard's: a unique that is not there yet is installed; for one that is
\* already there the call either replaces the value or, as shipyard
\* documents ("Does nothing if the storage already exists"), keeps the old
\* one.  add_unique does not look at which of the two happened.
World_add_unique(uniques, t, v) ==
    {Put(uniques, t, v)} \cup (IF t \in DOMAIN uniques THEN {uniques} ELSE {})

\* AppBuilder::add_unique (app_builder.rs:296-307)
AddUnique(t, v) ==
    /\ OpAddUnique(t, v) \in CurrentOps
    /\ \E installed \in World_add_unique(world.uniques, t, v) :
           world' = [world EXCEPT !.uniques = installed]
    /\ track_type_names' = tracked_type_id_of(track_type_names, t)
    /\ track_uniques' = EntryPush(track_uniques, t, PluginId_clone(track_current_plugin))
    /\ callstack' = Advanced
    /\ top_ops' = AdvancedTop
    /\ UNCHANGED <<track_current_plugin, track_unique_dependencies,
                   track_update_packed, stage_workloads, phase, signal,
                   trace_log, track_added_plugins, warn_log, unique_log, app, outside_builder>>

\* a bug add_unique_dependency could have: the dependency is checked at the
\* call, and one declared before its provider is registered fails there
AddUniqueDependency_needs_provider(t, r) ==
    /\ OpAddUniqueDependency(t, r) \in CurrentOps
    /\ IF t \in DOMAIN track_uniques
       THEN /\ track_type_names' = tracked_type_id_of(track_type_names, t)
            /\ track_unique_dependencies' =
                   EntryPush(track_unique_dependencies, t,
                             <<PluginId_clone(track_current_plugin), r>>)
            /\ callstack' = Advanced
            /\ UNCHANGED <<phase, signal>>
       ELSE /\ phase' = "panicked"
            /\ signal' = [kind |-> "unique dependency has no provider"]
            /\ callstack' = Unwound
            /\ UNCHANGED <<track_type_names, track_unique_dependencies>>
    /\ top_ops' = AdvancedTop
    /\ UNCHANGED <<track_current_plugin, track_uniques, track_update_packed,
                   stage_workloads, world, trace_log, track_added_plugins, warn_log,
                   unique_log, app, outside_builder>>

\* AppBuilder::add_unique_dependency (app_builder.rs:312-322)
AddUniqueDependency(t, r) ==
    /\ OpAddUniqueDependency(t, r) \in CurrentOps
    /\ track_type_names' = tracked_type_id_of(track_type_names, t)
    /\ track_unique_dependencies' =
           EntryPush(track_unique_dependencies, t, <<PluginId_clone(track_current_plugin), r>>)
    /\ callstack' = Advanced
    /\ top_ops' = AdvancedTop
    /\ UNCHANGED <<track_current_plugin, track_uniques, track_update_packed,
                   stage_workloads, world, phase, signal, trace_log, track_added_plugins, warn_log,
                   unique_log, app,
                   outside_builder>>

\* a system of a stage is a tuple: <<name>> for a system a plugin registered,
\* and for the reset of storage t (app_builder.rs:284-289):
ClearSystem(t) == <<"clear_inserted_and_modified", t>>

\* a bug update_pack could have: a repeated claim is not recorded
update_pack_ledger_first_only(ledger, t, claim) ==
    IF t \in DOMAIN ledger THEN ledger ELSE Put(ledger, t, <<claim>>)

\* app_builder.rs:272-280: the claim is pushed on the type's list, which is
\* created when this is the first claim
update_pack_ledger(ledger, t, claim) ==
    IF t \in DOMAIN ledger
    THEN [ledger EXCEPT ![t] = Append(@, claim)]
    ELSE Put(ledger, t, <<claim>>)

\* a bug update_pack could have: every claim packs and schedules a reset
first_claim_always(ledger, t) == TRUE

\* app_builder.rs:272-278: the storage is packed and its reset scheduled
\* only when the type has no claim yet
first_claim(ledger, t) == t \notin DOMAIN ledger

\* AppBuilder::update_pack (app_builder.rs:270-293)
UpdatePack(t, r) ==
    /\ OpUpdatePack(t, r) \in CurrentOps
    /\ track_type_names' = tracked_type_id_of(track_type_names, t)
    /\ track_update_packed' =
           update_pack_ledger(track_update_packed, t,
                              <<PluginId_clone(track_current_plugin), r>>)
    /\ IF ~first_claim(track_update_packed, t)
       THEN /\ callstack' = Advanced
            /\ UNCHANGED <<world, stage_workloads, phase, signal>>
       ELSE /\ world' = [world EXCEPT !.update_packed = @ \cup {t}]
            /\ stage_workloads' =
                   Workloads_add_systems_to_stage(stage_workloads, "LAST", ClearSystem(t))
            /\ IF StageKnown(stage_workloads, "LAST")
               THEN /\ callstack' = Advanced
                    /\ UNCHANGED <<phase, signal>>
               ELSE /\ phase' = "panicked"
                    /\ signal' = [kind |-> "unknown stage", stage |-> "LAST"]
                    /\ callstack' = Unwound
    /\ top_ops' = AdvancedTop
    /\ UNCHANGED <<track_current_plugin, track_uniques, track_unique_dependencies,
                   trace_log, track_added_plugins, warn_log, unique_log, app, outside_builder>>

\* AppBuilder::add_systems_to_stage (app_builder.rs:447-456)
AddSystemsToStage(s, sys) ==
    /\ OpAddSystemsToStage(s, sys) \in CurrentOps
    /\ stage_workloads' = Workloads_add_systems_to_stage(stage_workloads, s, <<sys>>)
    /\ IF StageKnown(stage_workloads, s)
       THEN /\ callstack' = Advanced
            /\ UNCHANGED <<phase, signal>>
       ELSE /\ phase' = "panicked"
            /\ signal' = [kind |-> "unknown stage", stage |-> s]
            /\ callstack' = Unwound
    /\ top_ops' = AdvancedTop
    /\ UNCHANGED <<track_current_plugin, track_type_names, track_uniques,
                   track_unique_dependencies, track_update_packed, world,
                   trace_log, track_added_plugins, warn_log, unique_log, app, outside_builder>>


\* a bug depend_on_plugin could have: the record is never consulted
plugin_is_added_unchecked(added, p) == TRUE

\* the plugin type has an entry in the added-plugins record
plugin_is_added(added, p) == p \in DOMAIN added

\* AppBuilder::depend_on_plugin: panics unless the plugin was added before
DependOnPlugin(p, r) ==
    /\ OpDependOnPlugin(p, r) \in CurrentOps
    /\ IF plugin_is_added(track_added_plugins, p)
       THEN /\ callstack' = Advanced
            /\ UNCHANGED <<phase, signal>>
       ELSE /\ phase' = "panicked"
            /\ signal' = [kind |-> "plugin dependency not added", plugin |-> p,
                          required_by |-> track_current_plugin, reason |-> r]
            /\ callstack' = Unwound
    /\ top_ops' = AdvancedTop
    /\ UNCHANGED <<track_current_plugin, track_type_names, track_uniques,
                   track_unique_dependencies, track_update_packed, stage_workloads,
                   world, trace_log, track_added_plugins, warn_log, unique_log, app, outside_builder>>

(***************************************************************************)
(* AppBuilder::finish (app_builder.rs:169-243).                            *)
(***************************************************************************)
\* a bug finish could have: only one unmet type is reported
RemainingUniqueDeps_first_only(deps, uniques) ==
    LET unmet == (DOMAIN deps) \ (DOMAIN uniques)
    IN  [t \in (IF unmet = {} THEN {} ELSE {CHOOSE x \in unmet : TRUE}) |-> deps[t]]

\* a bug finish could have: a dependency is met only by a provider that was
\* registered with no later provider overriding it
RemainingUniqueDeps_single_provider(deps, uniques) ==
    [t \in {x \in DOMAIN deps : x \notin DOMAIN uniques \/ Len(uniques[x]) > 1} |-> deps[t]]

\* the dependents left once every provided unique was removed (181-197)
RemainingUniqueDeps(deps, uniques) ==
    [t \in (DOMAIN deps) \ (DOMAIN uniques) |-> deps[t]]

\* a bug finish could have: the dependents of a provided unique are taken
\* with unwrap(), which fails for a unique nobody depends on
remove_unwrap(deps, t) == IF t \in DOMAIN deps THEN deps[t] ELSE <<"unwrap on None">>

\* track_unique_dependencies.remove(&id).unwrap_or_default() (183-185): the
\* dependents of a type, none for a type that has no entry
remove_unwrap_or_default(deps, t) == IF t \in DOMAIN deps THEN deps[t] ELSE <<>>

\* the types finish looks up in track_type_names with unwrap()
FinishLookups(deps, uniques) == (DOMAIN uniques) \cup (DOMAIN deps)

\* one line of the panic message (199-211)
UnmetLine(names, remaining, t) == [name |-> names[t], required_by |-> remaining[t]]

Finish ==
    /\ BuilderOwned
    /\ ~InBuild
    /\ LET remaining == RemainingUniqueDeps(track_unique_dependencies, track_uniques)
           lookups == FinishLookups(track_unique_dependencies, track_uniques)
       IN  IF ~(lookups \subseteq DOMAIN track_type_names)
           THEN /\ phase' = "panicked"
                /\ signal' = [kind |-> "unwrap on None"]
                /\ UNCHANGED <<warn_log, unique_log, world, app>>
           ELSE /\ warn_log' = {track_type_names[t] :
                                  t \in {u \in DOMAIN track_uniques : Len(track_uniques[u]) > 1}}
                /\ unique_log' =
                       {[name |-> track_type_names[t],
                         provided_by |-> track_uniques[t],
                         depended_on_by |->
                             remove_unwrap_or_default(track_unique_dependencies, t)] :
                           t \in DOMAIN track_uniques}
                /\ IF DOMAIN remaining # {}
                   THEN /\ \E order \in Orders(DOMAIN remaining) :
                              signal' = [kind |-> "unmet unique dependencies",
                                         lines |-> [i \in DOMAIN order |->
                                             UnmetLine(track_type_names, remaining, order[i])]]
                        /\ phase' = "panicked"
                        /\ UNCHANGED <<world, app>>
                   ELSE /\ phase' = "finished"
                        /\ world' = [world EXCEPT !.workloads = stage_workloads]
                        /\ app' = [kind |-> "App",
                                   update_stages |-> [i \in DOMAIN stage_workloads |->
                                                         stage_workloads[i].name]]
                        /\ UNCHANGED signal
    /\ UNCHANGED <<track_current_plugin, track_type_names, track_uniques,
                   track_unique_dependencies, track_update_packed, stage_workloads,
                   callstack, top_ops, trace_log, track_added_plugins, outside_builder>>

(***************************************************************************)
(* App::add_cycle (app_add_cycle.rs:37-136).                               *)
(***************************************************************************)
None == [some |-> FALSE]
Some(x) == [some |-> TRUE, value |-> x]

\* TypeNames::lookup_name (type_names.rs:21-23)
lookup_name(names, t) == IF t \in DOMAIN names THEN Some(names[t]) ELSE None

\* TypeIdBuckets<T>: a named multi-map from TypeId to the list of values
\* associated with it, in the order they were associated
TypeIdBuckets_new(name) == [name |-> name, buckets |-> EmptyMap]

TypeIdBuckets_associate(b, t, v) ==
    [b EXCEPT !.buckets = EntryPush(@, t, v)]

\* the keys entries() iterates: only types with something associated
TypeIdBuckets_entries(b) == {t \in DOMAIN b.buckets : b.buckets[t] # <<>>}

\* what associate tells its caller
First == [kind |-> "First"]
Nth(k) == [kind |-> "Nth", count |-> k]

\* a bug associate could have: the claim is counted before it is appended,
\* and the second claim of a type is taken for the first
TypeIdBuckets_associate_returns_counted_before(b, t) ==
    IF t \notin DOMAIN b.buckets \/ Len(b.buckets[t]) <= 1
    THEN First
    ELSE Nth(Len(b.buckets[t]))

\* First when the type had no claim in this ledger, else the ordinal of the
\* claim being appended
TypeIdBuckets_associate_returns(b, t) ==
    IF t \notin DOMAIN b.buckets \/ b.buckets[t] = <<>>
    THEN First
    ELSE Nth(Len(b.buckets[t]) + 1)

\* the types claimed on the ledger and the claims a caller may make
LedgerTypes == {TypeIdA, TypeIdB}
LedgerClaims ==
    {<<owner, reason>> : owner \in {<<>>, <<"RxA1">>}, reason \in {"Rx1", "Rx2"}}

LedgerIdle ==
    /\ assoc_ledger = TypeIdBuckets_new("ledger")
    /\ ledger_returned = NoResult

LedgerLen(t) == IF t \in DOMAIN assoc_ledger.buckets THEN Len(assoc_ledger.buckets[t]) ELSE 0
LedgerSize == LedgerLen(TypeIdA) + LedgerLen(TypeIdB)

\* TypeIdBuckets::associate
Associate(t, claim) ==
    /\ LedgerSize < MaxClaims
    /\ assoc_ledger' = TypeIdBuckets_associate(assoc_ledger, t, claim)
    /\ ledger_returned' = TypeIdBuckets_associate_returns(assoc_ledger, t)
    /\ UNCHANGED outside_ledger

LedgerNext == \E t \in LedgerTypes, claim \in LedgerClaims : Associate(t, claim)

\* the workloads a cycle may be given.  A workload carries its name, the
\* TypeId of the plugin it was built from (if any), and the tracked-resource
\* ledgers its builder recorded.
WorkloadNames == {"RxA1", "RxA2"}
PluginTypeIds == {"TypeId(RxA1)", "TypeId(RxA2)"}
UpdatePackTypes == {TypeIdA, TypeIdB}
TrackedUniqueTypes == {TypeIdA}

UpdatePackReason(name) == IF name = "RxA1" THEN "Rx1" ELSE "Rx2"
TracksReason(name) == IF name = "RxA1" THEN "RxTrack1" ELSE "RxTrack2"

\* the ledger a builder leaves when it claimed exactly the types in S
Ledger(S, owner, reason) ==
    [t \in S |-> <<(<<owner, reason>>)>>]

Workload(name, plugin_id, up, tu) ==
    [name |-> name,
     plugin_id |-> plugin_id,
     signature |-> [track_update_packed |-> Ledger(up, <<name>>, UpdatePackReason(name)),
                    track_tracked_uniques |-> Ledger(tu, <<name>>, TracksReason(name))]]

Workloads ==
    {Workload(n, pid, up, tu) :
        n \in WorkloadNames,
        pid \in {None} \cup {Some(x) : x \in PluginTypeIds},
        up \in SUBSET UpdatePackTypes,
        tu \in SUBSET TrackedUniqueTypes}

\* a bug add_cycle could have: a repeated plugin is counted again
IsDuplicate_never(plugins_added, plugin_id) == FALSE

\* a bug add_cycle could have: a workload without a plugin is taken for a
\* repetition
IsDuplicate_unidentified(plugins_added, plugin_id) ==
    ~plugin_id.some \/ plugin_id.value \in plugins_added

\* app_add_cycle.rs:65-73: a workload whose plugin already contributed is
\* only named, its associations are not counted again
IsDuplicate(plugins_added, plugin_id) ==
    plugin_id.some /\ plugin_id.value \in plugins_added

\* app_add_cycle.rs:75-100: associate every claimed type of one workload
RECURSIVE AssociateAll(_, _, _, _)
AssociateAll(b, ledger, todo, assoc_of) ==
    IF todo = {} THEN b
    ELSE LET t == CHOOSE x \in todo : TRUE
         IN  AssociateAll(
                 IF ledger[t] # <<>>
                 THEN TypeIdBuckets_associate(b, t, assoc_of[t])
                 ELSE b,
                 ledger, todo \ {t}, assoc_of)

\* a bug add_cycle could have: the duplicate skip sits in the update-pack
\* loop only, and the tracked uniques of a repeated plugin are counted again
EachWorkload_skip_update_packs_only(st, w) ==
    LET named == [st EXCEPT !.names_checked = Append(@, w.name)]
        up == w.signature.track_update_packed
        tu == w.signature.track_tracked_uniques
        dup == IsDuplicate(st.plugins_added, w.plugin_id)
    IN  [named EXCEPT
            !.plugins_added =
                IF w.plugin_id.some THEN @ \cup {w.plugin_id.value} ELSE @,
            !.cumulative_update_packed =
                IF dup THEN @
                ELSE AssociateAll(@, up, DOMAIN up,
                         [t \in DOMAIN up |->
                             [plugins |-> up[t], plugin_id |-> w.plugin_id,
                              workload |-> w.name]]),
            !.cumulative_tracked_uniques =
                AssociateAll(@, tu, DOMAIN tu,
                    [t \in DOMAIN tu |->
                        [plugins |-> tu[t], plugin_id |-> None,
                         workload |-> w.name]])]

\* a bug add_cycle could have: a workload is skipped when one of the same
\* name came before it, whatever their plugins
EachWorkload_skip_by_name(st, w) ==
    LET named == [st EXCEPT !.names_checked = Append(@, w.name)]
        up == w.signature.track_update_packed
        tu == w.signature.track_tracked_uniques
    IN  IF w.name \in Range(st.names_checked)
        THEN named
        ELSE [named EXCEPT
                 !.plugins_added =
                     IF w.plugin_id.some THEN @ \cup {w.plugin_id.value} ELSE @,
                 !.cumulative_update_packed =
                     AssociateAll(@, up, DOMAIN up,
                         [t \in DOMAIN up |->
                             [plugins |-> up[t], plugin_id |-> w.plugin_id,
                              workload |-> w.name]]),
                 !.cumulative_tracked_uniques =
                     AssociateAll(@, tu, DOMAIN tu,
                         [t \in DOMAIN tu |->
                             [plugins |-> tu[t], plugin_id |-> None,
                              workload |-> w.name]])]

\* a bug add_cycle could have: the name is pushed after the duplicate check,
\* and a skipped workload is left out of the cycle
EachWorkload_names_after_skip(st, w) ==
    LET named == [st EXCEPT !.names_checked = Append(@, w.name)]
        up == w.signature.track_update_packed
        tu == w.signature.track_tracked_uniques
    IN  IF IsDuplicate(st.plugins_added, w.plugin_id)
        THEN st
        ELSE [named EXCEPT
                 !.plugins_added =
                     IF w.plugin_id.some THEN @ \cup {w.plugin_id.value} ELSE @,
                 !.cumulative_update_packed =
                     AssociateAll(@, up, DOMAIN up,
                         [t \in DOMAIN up |->
                             [plugins |-> up[t], plugin_id |-> w.plugin_id,
                              workload |-> w.name]]),
                 !.cumulative_tracked_uniques =
                     AssociateAll(@, tu, DOMAIN tu,
                         [t \in DOMAIN tu |->
                             [plugins |-> tu[t], plugin_id |-> None,
                              workload |-> w.name]])]

\* app_add_cycle.rs:52-101: one iteration of 'each_workload
EachWorkload(st, w) ==
    LET named == [st EXCEPT !.names_checked = Append(@, w.name)]
        up == w.signature.track_update_packed
        tu == w.signature.track_tracked_uniques
    IN  IF IsDuplicate(st.plugins_added, w.plugin_id)
        THEN named
        ELSE [named EXCEPT
                 !.plugins_added =
                     IF w.plugin_id.some THEN @ \cup {w.plugin_id.value} ELSE @,
                 !.cumulative_update_packed =
                     AssociateAll(@, up, DOMAIN up,
                         [t \in DOMAIN up |->
                             [plugins |-> up[t], plugin_id |-> w.plugin_id,
                              workload |-> w.name]]),
                 !.cumulative_tracked_uniques =
                     AssociateAll(@, tu, DOMAIN tu,
                         [t \in DOMAIN tu |->
                             [plugins |-> tu[t], plugin_id |-> None,
                              workload |-> w.name]])]

\* a bug add_cycle could have: the workloads are walked last to first
RECURSIVE Walk_backwards(_, _)
Walk_backwards(st, ws) ==
    IF ws = <<>> THEN st
    ELSE Walk_backwards(EachWorkload(st, Last(ws)), SubSeq(ws, 1, Len(ws) - 1))

RECURSIVE Walk(_, _)
Walk(st, ws) ==
    IF ws = <<>> THEN st ELSE Walk(EachWorkload(st, Head(ws)), Tail(ws))

\* app_add_cycle.rs:41-50
WalkStart ==
    [plugins_added |-> {},
     names_checked |-> <<>>,
     cumulative_update_packed |-> TypeIdBuckets_new("update packed in workloads"),
     cumulative_tracked_uniques |-> TypeIdBuckets_new("tracked uniques in workloads")]

\* a bug add_cycle could have: only the update-packed ledger is scanned
Conflicting_update_packed_only(b) ==
    IF b.name = "update packed in workloads"
    THEN {t \in TypeIdBuckets_entries(b) : Len(b.buckets[t]) > 1}
    ELSE {}

\* bugs add_cycle could have: the threshold of a conflict is off by one
Conflicting_more_than_two(b) == {t \in TypeIdBuckets_entries(b) : Len(b.buckets[t]) > 2}
Conflicting_any_claim(b) == {t \in TypeIdBuckets_entries(b) : Len(b.buckets[t]) >= 1}

\* app_add_cycle.rs:105-126: the types whose bucket holds more than one workload
Conflicting(b) == {t \in TypeIdBuckets_entries(b) : Len(b.buckets[t]) > 1}

UpdatePackResetInMultipleWorkloads(b, t) ==
    [variant |-> "UpdatePackResetInMultipleWorkloads",
     update_pack |-> type_name(t), conflicts |-> b.buckets[t]]

\* a bug add_cycle could have: a tracked unique is reported as an update pack
TrackedUnique_reported_as_update_pack(b, t) ==
    UpdatePackResetInMultipleWorkloads(b, t)

TrackedUniqueResetInMultipleWorkloads(b, t) ==
    [variant |-> "TrackedUniqueResetInMultipleWorkloads",
     tracked_unique |-> type_name(t), conflicts |-> b.buckets[t]]

\* a bug add_cycle could have: it returns at the first conflict it finds
add_cycle_result_fail_fast(st, up_order, tu_order) ==
    LET errs ==
            [i \in DOMAIN up_order |->
                UpdatePackResetInMultipleWorkloads(st.cumulative_update_packed, up_order[i])]
            \o
            [i \in DOMAIN tu_order |->
                TrackedUniqueResetInMultipleWorkloads(st.cumulative_tracked_uniques, tu_order[i])]
    IN  IF errs # <<>>
        THEN [kind |-> "Err", errs |-> <<errs[1]>>]
        ELSE [kind |-> "Ok", names |-> st.names_checked]

\* app_add_cycle.rs:103-135: the Result for the walked state, the entries of
\* each ledger being visited in the given orders
add_cycle_result(st, up_order, tu_order) ==
    LET errs ==
            [i \in DOMAIN up_order |->
                UpdatePackResetInMultipleWorkloads(st.cumulative_update_packed, up_order[i])]
            \o
            [i \in DOMAIN tu_order |->
                TrackedUniqueResetInMultipleWorkloads(st.cumulative_tracked_uniques, tu_order[i])]
    IN  IF errs # <<>>
        THEN [kind |-> "Err", errs |-> errs]
        ELSE [kind |-> "Ok", names |-> st.names_checked]

\* a bug add_cycle could have: the ledgers and the set of plugins seen live
\* on from one call to the next
add_cycle_locals_kept(left) == left

\* app_add_cycle.rs:41-50: every call starts from locals it creates itself,
\* whatever the earlier calls left when they returned
add_cycle_locals(left) == WalkStart

\* the workloads the repeated calls are given
AgainWorkloads ==
    {Workload("RxA1", Some("TypeId(RxA1)"), {TypeIdA}, {}),
     Workload("RxA2", Some("TypeId(RxA2)"), {TypeIdA}, {TypeIdA}),
     Workload("RxA2", Some("TypeId(RxA1)"), {TypeIdB}, {})}
AgainInputs == UNION {[1..n -> AgainWorkloads] : n \in 0..MaxUnits}

AgainIdle ==
    /\ again_inputs = <<>>
    /\ again_result = NoResult
    /\ again_locals = WalkStart

\* App::add_cycle (app_add_cycle.rs:37-136), called after the earlier calls
AddCycleAgain(ws) ==
    /\ Len(again_inputs) < MaxCalls
    /\ LET st == Walk(add_cycle_locals(again_locals), ws)
       IN  /\ \E up_order \in Orders(Conflicting(st.cumulative_update_packed)),
                 tu_order \in Orders(Conflicting(st.cumulative_tracked_uniques)) :
                  again_result' = add_cycle_result(st, up_order, tu_order)
           /\ again_locals' = st
    /\ again_inputs' = Append(again_inputs, ws)
    /\ UNCHANGED outside_again

AgainNext == \E ws \in AgainInputs : AddCycleAgain(ws)

(***************************************************************************)
(* TrackedValue, Tracked and TrackedMut (tracked_unique.rs).               *)
(***************************************************************************)
\* InnerTrackedState (tracked_unique.rs:79-84)
InnerTrackedState == {"New", "Modified", "NoChanges"}

\* the values a tracked unique may hold
TrackedPayloads == {0, 1}

\* TrackedValue::new (tracked_unique.rs:87-89)
TrackedValue_new(value) == [state |-> "New", value |-> value]

\* TrackedValue::reset_tracking (tracked_unique.rs:90-92)
reset_tracking(tv) == [tv EXCEPT !.state = "NoChanges"]

\* TrackedValue::is_new_or_modified (tracked_unique.rs:93-95, 100-102)
is_new_or_modified(tv) == tv.state # "NoChanges"

\* Deref for Tracked and TrackedMut (tracked_unique.rs:105-121): the value
\* is read and the TrackedValue is what it was
Tracked_deref(tv) == tv

\* a bug DerefMut could have: the value is handed out and the state is kept
TrackedMut_deref_mut_untracked(tv, value) == [tv EXCEPT !.value = value]

\* DerefMut for TrackedMut (tracked_unique.rs:123-129): the state is set to
\* Modified before the value is handed out; the caller then writes value
TrackedMut_deref_mut(tv, value) == [state |-> "Modified", value |-> value]

\* TrackedUniquePlugin::build (tracked_unique.rs:171-175): the unique starts
\* as TrackedValue::new of the initial value
TrackedIdle ==
    /\ tracked_value = TrackedValue_new(0)
    /\ tracked_ops = <<>>

\* a system reads the unique through Tracked or TrackedMut
TrackedRead ==
    /\ Len(tracked_ops) < MaxAccesses
    /\ tracked_value' = Tracked_deref(tracked_value)
    /\ tracked_ops' = Append(tracked_ops, "deref")
    /\ UNCHANGED outside_tracked

\* a system writes the unique through TrackedMut
TrackedWrite(value) ==
    /\ Len(tracked_ops) < MaxAccesses
    /\ tracked_value' = TrackedMut_deref_mut(tracked_value, value)
    /\ tracked_ops' = Append(tracked_ops, "deref_mut")
    /\ UNCHANGED outside_tracked

\* reset_tracked_unique (tracked_unique.rs:177-181)
ResetTrackedUnique ==
    /\ Len(tracked_ops) < MaxAccesses
    /\ tracked_value' = reset_tracking(tracked_value)
    /\ tracked_ops' = Append(tracked_ops, "reset_tracking")
    /\ UNCHANGED outside_tracked

TrackedNext ==
    \/ TrackedRead
    \/ \E value \in TrackedPayloads : TrackedWrite(value)
    \/ ResetTrackedUnique

(***************************************************************************)
(* Component storages.  A storage is shipyard's update-packed SparseSet:   *)
(* the components by entity, the inserted/modified flag of each, and the   *)
(* ids of the components that were removed or deleted.  The ids stay in    *)
(* removed and deleted until they are taken; adding a component again      *)
(* does not take them out.                                                 *)
(***************************************************************************)
Entities == {"e1", "e2"}

\* the values of a read component
ReadValues == {0, 1, 2}

EmptyStorage == [comps |-> EmptyMap, flags |-> EmptyMap, removed |-> {}, deleted |-> {}]

\* the flag a written component gets: one that is inserted stays inserted
Flagged(st, e) ==
    IF e \in DOMAIN st.comps /\ st.flags[e] # "inserted" THEN "modified" ELSE "inserted"

\* ViewMut::add_component_unchecked, as called at update_one_to_one.rs:114
add_component_unchecked(st, e, c) ==
    [st EXCEPT !.comps = Put(@, e, c), !.flags = Put(@, e, Flagged(st, e))]

\* *exist.as_mut() = update (update_one_to_one.rs:121): the write through
\* the Mut handed out by get flags the component
Mut_assign(st, e, c) ==
    [st EXCEPT !.comps = Put(@, e, c), !.flags = Put(@, e, Flagged(st, e))]

Without(f, e) == [x \in (DOMAIN f) \ {e} |-> f[x]]

\* ViewMut::delete, as called at update_one_to_one.rs:129
Storage_delete(st, e) ==
    IF e \in DOMAIN st.comps
    THEN [st EXCEPT !.comps = Without(@, e), !.flags = Without(@, e),
                    !.deleted = @ \cup {e}]
    ELSE st

\* ViewMut::remove, as called in the doc test (update_one_to_one.rs:53)
Storage_remove(st, e) ==
    IF e \in DOMAIN st.comps
    THEN [st EXCEPT !.comps = Without(@, e), !.flags = Without(@, e),
                    !.removed = @ \cup {e}]
    ELSE st

\* ViewMut::clear_inserted_and_modified, the reset update_pack schedules
\* (app_builder.rs:284-289)
clear_inserted_and_modified(st) ==
    [st EXCEPT !.flags = [e \in DOMAIN st.flags |-> "clean"]]

\* View::inserted, View::modified, View::removed_or_deleted
inserted(st) == {e \in DOMAIN st.comps : st.flags[e] = "inserted"}
modified(st) == {e \in DOMAIN st.comps : st.flags[e] = "modified"}
removed_or_deleted(st) == st.removed \cup st.deleted

(***************************************************************************)
(* UpdateOneToOne (update_one_to_one.rs).                                  *)
(***************************************************************************)
\* the update_fn given to update: several T values give one U value
update_fn(e, t) == t \div 2

\* the update_fn given to update_or_ignore and update_or_delete
update_fn_opt(e, t) == IF t = 1 THEN None ELSE Some(t \div 2)

\* update wraps its update_fn (update_one_to_one.rs:104)
update_fn_some(e, t) == Some(update_fn(e, t))

\* update_one_to_one.rs:119-125 and 147-153: the existing U is assigned only
\* if it differs, a missing U is added
AssignDistinct(u, e, update) ==
    IF e \in DOMAIN u.comps
    THEN IF u.comps[e] # update THEN Mut_assign(u, e, update) ELSE u
    ELSE add_component_unchecked(u, e, update)

\* a bug update_or_delete could have: a None from update_fn leaves the U alone
or_delete_ignoring(u, e) == u

\* update_or_delete on a None from update_fn (update_one_to_one.rs:141-143,
\* 154-156)
or_delete(u, e) == Storage_delete(u, e)

\* the update_fn a call was given: update gives the wrapped one
call_update_fn(caller, e, t) ==
    IF caller = "update" THEN update_fn_some(e, t) ELSE update_fn_opt(e, t)

\* one for loop of update_or_ignore (on_none = "ignore") or update_or_delete
\* (on_none = "delete") over the entities of S: the inserted loop (112-116,
\* 138-144), the modified loop (117-127, 145-157) or the removed loop
\* (128-130, 158-160)
RECURSIVE OneToOneLoop(_, _, _, _, _, _)
OneToOneLoop(loop, caller, on_none, t, S, u) ==
    IF S = {} THEN u
    ELSE LET e == CHOOSE x \in S : TRUE
             update == IF loop = "removed" THEN None ELSE call_update_fn(caller, e, t.comps[e])
             done ==
                 IF loop = "removed" THEN Storage_delete(u, e)
                 ELSE IF ~update.some
                      THEN IF on_none = "delete" THEN or_delete(u, e) ELSE u
                 ELSE IF loop = "inserted"
                      THEN add_component_unchecked(u, e, update.value)
                 ELSE AssignDistinct(u, e, update.value)
         IN  OneToOneLoop(loop, caller, on_none, t, S \ {e}, done)

\* UpdateOneToOne::update_or_ignore (update_one_to_one.rs:107-131)
UpdateOneToOne_update_or_ignore(t, u, caller) ==
    OneToOneLoop("removed", caller, "ignore", t, removed_or_deleted(t),
        OneToOneLoop("modified", caller, "ignore", t, modified(t),
            OneToOneLoop("inserted", caller, "ignore", t, inserted(t), u)))

\* UpdateOneToOne::update_or_delete (update_one_to_one.rs:133-161)
UpdateOneToOne_update_or_delete(t, u) ==
    OneToOneLoop("removed", "update_or_delete", "delete", t, removed_or_deleted(t),
        OneToOneLoop("modified", "update_or_delete", "delete", t, modified(t),
            OneToOneLoop("inserted", "update_or_delete", "delete", t, inserted(t), u)))

\* UpdateOneToOne::update (update_one_to_one.rs:100-105)
UpdateOneToOne_update(t, u) == UpdateOneToOne_update_or_ignore(t, u, "update")

\* no call was made through a view since the storages were last written
NoUpdate == [kind |-> "none"]

StoragesIdle ==
    /\ v_t = EmptyStorage
    /\ v_t2 = EmptyStorage
    /\ vm_u = EmptyStorage
    /\ upd_last = NoUpdate
    /\ storage_ops = 0

\* one more call on the storages by a system of the application
StorageCall(kind) ==
    /\ storage_ops < MaxStorageOps
    /\ storage_ops' = storage_ops + 1
    /\ upd_last' = kind
    /\ UNCHANGED outside_storage

\* a system adds or overwrites the T of an entity
AddT(e, t) ==
    /\ StorageCall(NoUpdate)
    /\ v_t' = add_component_unchecked(v_t, e, t)
    /\ UNCHANGED <<v_t2, vm_u>>

\* a system removes the T of an entity (update_one_to_one.rs:52-54)
RemoveT(e) ==
    /\ StorageCall(NoUpdate)
    /\ v_t' = Storage_remove(v_t, e)
    /\ UNCHANGED <<v_t2, vm_u>>

\* a system deletes the T of an entity
DeleteT(e) ==
    /\ StorageCall(NoUpdate)
    /\ v_t' = Storage_delete(v_t, e)
    /\ UNCHANGED <<v_t2, vm_u>>

\* the end of a cycle: the resets scheduled in the LAST stage run
\* (app_builder.rs:283-290)
ResetStorages ==
    /\ StorageCall(NoUpdate)
    /\ v_t' = clear_inserted_and_modified(v_t)
    /\ v_t2' = clear_inserted_and_modified(v_t2)
    /\ vm_u' = clear_inserted_and_modified(vm_u)

\* what a call through UpdateOneToOne leaves to look at: the U storage as
\* it was before the call
Updated(kind) == [kind |-> kind, before |-> vm_u]

\* a system calls UpdateOneToOne::update
Update ==
    /\ StorageCall(Updated("update"))
    /\ vm_u' = UpdateOneToOne_update(v_t, vm_u)
    /\ UNCHANGED <<v_t, v_t2>>

\* a system calls UpdateOneToOne::update_or_ignore
UpdateOrIgnore ==
    /\ StorageCall(Updated("update_or_ignore"))
    /\ vm_u' = UpdateOneToOne_update_or_ignore(v_t, vm_u, "update_or_ignore")
    /\ UNCHANGED <<v_t, v_t2>>

\* a system calls UpdateOneToOne::update_or_delete
UpdateOrDelete ==
    /\ StorageCall(Updated("update_or_delete"))
    /\ vm_u' = UpdateOneToOne_update_or_delete(v_t, vm_u)
    /\ UNCHANGED <<v_t, v_t2>>

OneToOneNext ==
    \/ \E e \in Entities, t \in ReadValues : AddT(e, t)
    \/ \E e \in Entities : RemoveT(e)
    \/ \E e \in Entities : DeleteT(e)
    \/ ResetStorages
    \/ Update
    \/ UpdateOrIgnore
    \/ UpdateOrDelete

(***************************************************************************)
(* AddDistinct (add_distinct.rs).  add_distinct gives back the storage(s)  *)
(* as it leaves them and the bool it returns.                              *)
(***************************************************************************)
\* a bug add_distinct could have: the component is written whatever it is
add_distinct_always(st, e, c) ==
    [storage |-> add_component_unchecked(st, e, c), returned |-> TRUE]

\* AddDistinct for ViewMut<T> (add_distinct.rs:12-23)
add_distinct(st, e, c) ==
    IF e \in DOMAIN st.comps /\ c = st.comps[e]
    THEN [storage |-> st, returned |-> FALSE]
    ELSE [storage |-> add_component_unchecked(st, e, c), returned |-> TRUE]

\* impl_add_distinct! for (&mut ViewMut<A>, &mut ViewMut<B>)
\* (add_distinct.rs:25-42): get on the pair of views is Ok only for an
\* entity that has both components
add_distinct_pair(a, b, e, ca, cb) ==
    IF /\ e \in DOMAIN a.comps
       /\ e \in DOMAIN b.comps
       /\ <<ca, cb>> = <<a.comps[e], b.comps[e]>>
    THEN [storage |-> <<a, b>>, returned |-> FALSE]
    ELSE [storage |-> <<add_component_unchecked(a, e, ca),
                        add_component_unchecked(b, e, cb)>>,
          returned |-> TRUE]

\* a system calls add_distinct on the storage of T
AddDistinct(e, c) ==
    LET done == add_distinct(v_t, e, c)
    IN  /\ StorageCall([kind |-> "add_distinct", entity |-> e, component |-> <<c>>,
                        returned |-> done.returned, before |-> <<v_t>>])
        /\ v_t' = done.storage
        /\ UNCHANGED <<v_t2, vm_u>>

\* a system calls add_distinct on the storages of T and T2 together
AddDistinctPair(e, ca, cb) ==
    LET done == add_distinct_pair(v_t, v_t2, e, ca, cb)
    IN  /\ StorageCall([kind |-> "add_distinct", entity |-> e, component |-> <<ca, cb>>,
                        returned |-> done.returned, before |-> <<v_t, v_t2>>])
        /\ v_t' = done.storage[1]
        /\ v_t2' = done.storage[2]
        /\ UNCHANGED vm_u

DistinctNext ==
    \/ \E e \in Entities, c \in {0, 1} : AddDistinct(e, c)
    \/ \E e \in Entities, ca \in {0, 1}, cb \in {0, 1} : AddDistinctPair(e, ca, cb)
    \/ \E e \in Entities : DeleteT(e)
    \/ ResetStorages

(***************************************************************************)
(* UpdateTwoToOne (update_two_to_one.rs).  update_or_delete gives back the *)
(* U storage as it leaves it and, per loop iteration, the phase, the       *)
(* entity and whether update_fn was called for it.                         *)
(***************************************************************************)
\* the update_fn given to UpdateTwoToOne::update_or_delete
update_fn_two(e, t1, t2) == IF t1 + t2 >= 2 THEN None ELSE Some(t1 + t2)

\* a bug update_or_delete could have: the ids already handled are not
\* filtered out of the later phases
unhandled_all(ids, handled_ids) == ids

\* .filter(|e| !handled_ids.contains(e)) (update_two_to_one.rs:80, 87, 108, 115)
unhandled(ids, handled_ids) == ids \ handled_ids

\* one for loop of UpdateTwoToOne::update_or_delete over the entities of S:
\* the deleted loop (68-70), the inserted loop (90-98) or the modified loop
\* (117-131); acc is the U storage and the log of the iterations so far
RECURSIVE TwoToOneLoop(_, _, _, _, _)
TwoToOneLoop(loop, t1, t2, S, acc) ==
    IF S = {} THEN acc
    ELSE LET e == CHOOSE x \in S : TRUE
             both == e \in DOMAIN t1.comps /\ e \in DOMAIN t2.comps
             called == loop # "deleted" /\ both
             update == IF called THEN update_fn_two(e, t1.comps[e], t2.comps[e]) ELSE None
             done ==
                 IF loop = "deleted" THEN Storage_delete(acc.u, e)
                 ELSE IF ~both THEN acc.u
                 ELSE IF ~update.some THEN Storage_delete(acc.u, e)
                 ELSE IF loop = "inserted"
                      THEN add_component_unchecked(acc.u, e, update.value)
                 ELSE AssignDistinct(acc.u, e, update.value)
         IN  TwoToOneLoop(loop, t1, t2, S \ {e},
                 [u |-> done,
                  log |-> Append(acc.log, [phase |-> loop, entity |-> e,
                                           called |-> called])])

\* UpdateTwoToOne::update_or_delete (update_two_to_one.rs:59-132)
UpdateTwoToOne_update_or_delete(t1, t2, u) ==
    LET deleted_ids == removed_or_deleted(t1) \cup removed_or_deleted(t2)
        inserted_ids == unhandled(inserted(t1), deleted_ids)
                            \cup unhandled(inserted(t2), deleted_ids)
        handled_ids == deleted_ids \cup inserted_ids
        modified_ids == unhandled(modified(t1), handled_ids)
                            \cup unhandled(modified(t2), handled_ids)
    IN  TwoToOneLoop("modified", t1, t2, modified_ids,
            TwoToOneLoop("inserted", t1, t2, inserted_ids,
                TwoToOneLoop("deleted", t1, t2, deleted_ids, [u |-> u, log |-> <<>>])))

\* a system adds or overwrites the T2 of an entity
AddT2(e, t) ==
    /\ StorageCall(NoUpdate)
    /\ v_t2' = add_component_unchecked(v_t2, e, t)
    /\ UNCHANGED <<v_t, vm_u>>

\* a system deletes the T2 of an entity
DeleteT2(e) ==
    /\ StorageCall(NoUpdate)
    /\ v_t2' = Storage_delete(v_t2, e)
    /\ UNCHANGED <<v_t, vm_u>>

\* a system calls UpdateTwoToOne::update_or_delete
UpdateTwo ==
    LET done == UpdateTwoToOne_update_or_delete(v_t, v_t2, vm_u)
    IN  /\ StorageCall([kind |-> "two_to_one", before |-> vm_u, log |-> done.log])
        /\ vm_u' = done.u
        /\ UNCHANGED <<v_t, v_t2>>

TwoToOneNext ==
    \/ \E e \in Entities, t \in ReadValues : AddT(e, t)
    \/ \E e \in Entities, t \in {0, 1} : AddT2(e, t)
    \/ \E e \in Entities : RemoveT(e)
    \/ \E e \in Entities : DeleteT2(e)
    \/ ResetStorages
    \/ UpdateTwo

\* the caller builds one more workload for the cycle it is about to declare
AddPluginWorkloadWithInfo(w) ==
    /\ cycle_result = NoResult
    /\ Len(cycle) < MaxUnits
    /\ cycle' = Append(cycle, w)
    /\ UNCHANGED <<cycle_result, cycle_runs, outside_cycle>>

\* App::add_cycle (app_add_cycle.rs:37-136)
AddCycle ==
    /\ cycle_result = NoResult
    /\ LET st == Walk(WalkStart, cycle)
       IN  \E up_order \in Orders(Conflicting(st.cumulative_update_packed)),
              tu_order \in Orders(Conflicting(st.cumulative_tracked_uniques)) :
               cycle_result' = add_cycle_result(st, up_order, tu_order)
    /\ UNCHANGED <<cycle, cycle_runs, outside_cycle>>

\* AppWorkload::run: the named workloads are run one after the other, in
\* the order of the names
AppWorkload_run(names) == [i \in DOMAIN names |-> names[i]]

\* the caller runs the cycle add_cycle returned
RunCycle ==
    /\ cycle_result.kind = "Ok"
    /\ Len(cycle_runs) < MaxInvocations
    /\ cycle_runs' = Append(cycle_runs, AppWorkload_run(cycle_result.names))
    /\ UNCHANGED <<cycle, cycle_result, outside_cycle>>

\* the caller drops the result and starts collecting the next cycle
NextCycle ==
    /\ cycle_result # NoResult
    /\ cycle' = <<>>
    /\ cycle_result' = NoResult
    /\ cycle_runs' = <<>>
    /\ UNCHANGED outside_cycle

CycleNext ==
    \/ \E w \in Workloads : AddPluginWorkloadWithInfo(w)
    \/ AddCycle
    \/ RunCycle
    \/ NextCycle

Init == BuilderInit /\ CycleIdle /\ LedgerIdle /\ AgainIdle /\ TrackedIdle
        /\ StoragesIdle

Next ==
    \/ \E o \in CurrentOps : o.op = "add_plugin" /\ AddPlugin(o.plugin)
    \/ AddPluginReturn
    \/ \E o \in CurrentOps : o.op = "add_unique" /\ AddUnique(o.type, o.value)
    \/ \E o \in CurrentOps :
           o.op = "add_unique_dependency" /\ AddUniqueDependency(o.type, o.reason)
    \/ \E o \in CurrentOps : o.op = "update_pack" /\ UpdatePack(o.type, o.reason)
    \/ \E o \in CurrentOps :
           o.op = "add_systems_to_stage" /\ AddSystemsToStage(o.stage, o.system)
    \/ \E o \in CurrentOps : o.op = "depend_on_plugin" /\ DependOnPlugin(o.plugin, o.reason)
    \/ Finish

Spec == Init /\ [][Next]_vars

SpecCycle == Init /\ [][CycleNext]_vars

SpecLedger == Init /\ [][LedgerNext]_vars

SpecAgain == Init /\ [][AgainNext]_vars

SpecTracked == Init /\ [][TrackedNext]_vars

SpecOneToOne == Init /\ [][OneToOneNext]_vars

SpecDistinct == Init /\ [][DistinctNext]_vars

SpecTwoToOne == Init /\ [][TwoToOneNext]_vars

(***************************************************************************)
(* Properties of the AppBuilder (checked under Spec).                      *)
(***************************************************************************)
\* the add_plugin calls of plugin type p that have returned
TimesAdded(p) == Cardinality({i \in DOMAIN trace_log : Last(trace_log[i]) = p})

\* C1: a plugin type that is not multiply-addable is never added twice to
\* one builder: the second add_plugin fails with 'plugin already added'.
C1_NotAddedTwice ==
    \A p \in Plugins :
        TimesAdded(p) >= 2 =>
            \/ can_add_multiple_times(p)
            \/ (phase = "panicked" /\ signal.kind = "plugin already added")

\* C2: add_plugin<P> while P's build is in progress fails with 'would cause
\* a cycle' instead of entering P's build again, so no plugin type is on the
\* identity stack twice.
C2_NoSelfNesting ==
    \A i, j \in DOMAIN track_current_plugin :
        track_current_plugin[i] = track_current_plugin[j] => i = j

\* the claims of identity id with reason r in a ledger for type t
ClaimsBy(ledger, t, id, r) ==
    IF t \in DOMAIN ledger THEN Count(ledger[t], <<id, r>>) ELSE 0

\* the claims one AppBuilder call of identity id has left in its ledger
Recorded(o, id) ==
    CASE o.op = "update_pack" -> ClaimsBy(track_update_packed, o.type, id, o.reason)
      [] o.op = "add_unique_dependency" ->
             ClaimsBy(track_unique_dependencies, o.type, id, o.reason)
      [] o.op = "add_unique" ->
             IF o.type \in DOMAIN track_uniques THEN Count(track_uniques[o.type], id) ELSE 0
      [] OTHER -> 0

\* C3: a multiply-addable plugin can always be added again, and every
\* completed add of it left its own claims in every ledger its build
\* touches: after two adds each of them holds two claims from it.
C3_BothAddsRecorded ==
    \A p \in Plugins :
        can_add_multiple_times(p) =>
            /\ (OpAddPlugin(p) \in CurrentOps /\ Len(callstack) < MaxDepth)
                   => ENABLED AddPlugin(p)
            /\ \A n \in DOMAIN trace_log :
                  Last(trace_log[n]) = p =>
                      \A k \in DOMAIN Build(p) :
                          Build(p)[k].op \in {"update_pack", "add_unique_dependency",
                                              "add_unique"} =>
                              Recorded(Build(p)[k], trace_log[n])
                                  >= Count(trace_log, trace_log[n])

C3_Witness ==
    /\ Count(trace_log, <<"RxADup">>) = 2
    /\ ClaimsBy(track_update_packed, TypeIdA, <<"RxADup">>, "RxDup") = 2
    /\ phase = "composing"

\* finish has been called on the builder
FinishCalled ==
    \/ phase = "finished"
    \/ (phase = "panicked"
        /\ signal.kind \in {"unmet unique dependencies", "unwrap on None"})

\* the unique types with a recorded dependent and no recorded provider
Unmet == (DOMAIN track_unique_dependencies) \ (DOMAIN track_uniques)

\* C4: finish on a builder with unmet unique dependencies panics, and the
\* message has one line for every unmet type, with all its dependents.
C4_FinishListsEveryUnmet ==
    (FinishCalled /\ Unmet # {}) =>
        /\ phase = "panicked"
        /\ signal.kind = "unmet unique dependencies"
        /\ Len(signal.lines) = Cardinality(Unmet)
        /\ Range(signal.lines) =
               {[name |-> type_name(t), required_by |-> track_unique_dependencies[t]] :
                   t \in Unmet}

C4_Witness ==
    /\ phase = "panicked"
    /\ signal.kind = "unmet unique dependencies"
    /\ Len(signal.lines) = 2
    /\ \E i \in DOMAIN signal.lines : Len(signal.lines[i].required_by) = 2

\* C5: finish succeeds when every unique type with a dependent has a
\* provider, whatever the numbers of dependents and providers.
C5_FinishSucceedsWhenMet ==
    (FinishCalled /\ Unmet = {}) =>
        /\ phase = "finished"
        /\ signal = NoSignal
        /\ app # NoApp

C5_Witness ==
    /\ phase = "finished"
    /\ \E t \in DOMAIN track_uniques :
          /\ Len(track_uniques[t]) = 2
          /\ t \in DOMAIN track_unique_dependencies
    /\ \E t \in DOMAIN track_uniques : t \notin DOMAIN track_unique_dependencies


(***************************************************************************)
(* Properties of App::add_cycle (checked under SpecCycle).                 *)
(***************************************************************************)
Checked == cycle_result # NoResult

\* the storages a workload has update-packed, the uniques it tracks
UpdatePacked(w) ==
    {t \in DOMAIN w.signature.track_update_packed :
        w.signature.track_update_packed[t] # <<>>}
TrackedUniques(w) ==
    {t \in DOMAIN w.signature.track_tracked_uniques :
        w.signature.track_tracked_uniques[t] # <<>>}

\* two workloads built from two different plugins
DifferentPlugins(w1, w2) ==
    /\ w1.plugin_id.some
    /\ w2.plugin_id.some
    /\ w1.plugin_id.value # w2.plugin_id.value

\* one workload built twice from one plugin
SamePluginTwice(w1, w2) ==
    /\ w1.plugin_id.some
    /\ w1.plugin_id = w2.plugin_id
    /\ w1.signature = w2.signature

\* what a conflict says of each workload in it: its name and its claims
Told(conflicts) ==
    [i \in DOMAIN conflicts |->
        <<conflicts[i].workload, conflicts[i].plugins>>]

\* C6: two workloads of different plugins that both update-pack storage T
\* (and share nothing else) give exactly one conflict, of the update-pack
\* variant, naming T and listing both workloads with their claims.
C6_ConflictingUpdatePacks ==
    (Checked /\ Len(cycle) = 2 /\ DifferentPlugins(cycle[1], cycle[2])) =>
        \A t \in TypeIds :
            (/\ UpdatePacked(cycle[1]) \cap UpdatePacked(cycle[2]) = {t}
             /\ TrackedUniques(cycle[1]) \cap TrackedUniques(cycle[2]) = {})
            => /\ cycle_result.kind = "Err"
               /\ Len(cycle_result.errs) = 1
               /\ cycle_result.errs[1].variant = "UpdatePackResetInMultipleWorkloads"
               /\ cycle_result.errs[1].update_pack = type_name(t)
               /\ Told(cycle_result.errs[1].conflicts) =
                      <<(<<cycle[1].name, cycle[1].signature.track_update_packed[t]>>),
                        (<<cycle[2].name, cycle[2].signature.track_update_packed[t]>>)>>

C6_Witness ==
    /\ Checked
    /\ Len(cycle) = 2
    /\ cycle[1] = Workload("RxA1", Some("TypeId(RxA1)"), {TypeIdA}, {})
    /\ cycle[2] = Workload("RxA2", Some("TypeId(RxA2)"), {TypeIdA}, {})
    /\ cycle_result.kind = "Err"
    /\ Told(cycle_result.errs[1].conflicts) =
           <<(<<"RxA1", <<(<<(<<"RxA1">>), "Rx1">>)>> >>),
             (<<"RxA2", <<(<<(<<"RxA2">>), "Rx2">>)>> >>)>>

\* C7: a workload that update-packs a storage, built twice from one plugin,
\* gives no conflict: the second is skipped.
C7_DuplicateUpdatePacksOk ==
    (/\ Checked
     /\ Len(cycle) = 2
     /\ SamePluginTwice(cycle[1], cycle[2])
     /\ UpdatePacked(cycle[1]) # {})
    => /\ cycle_result.kind = "Ok"
       /\ Len(cycle_result.names) = 2

C7_Witness ==
    /\ Checked
    /\ Len(cycle) = 2
    /\ SamePluginTwice(cycle[1], cycle[2])
    /\ UpdatePacked(cycle[1]) = {TypeIdA}
    /\ TrackedUniques(cycle[1]) = {}
    /\ cycle_result.kind = "Ok"

\* C8: two workloads of different plugins that both track unique T (and
\* share nothing else) give exactly one conflict, of the tracked-unique
\* variant, naming T.
C8_ConflictingTracked ==
    (Checked /\ Len(cycle) = 2 /\ DifferentPlugins(cycle[1], cycle[2])) =>
        \A t \in TypeIds :
            (/\ TrackedUniques(cycle[1]) \cap TrackedUniques(cycle[2]) = {t}
             /\ UpdatePacked(cycle[1]) \cap UpdatePacked(cycle[2]) = {})
            => /\ cycle_result.kind = "Err"
               /\ Len(cycle_result.errs) = 1
               /\ cycle_result.errs[1].variant = "TrackedUniqueResetInMultipleWorkloads"
               /\ cycle_result.errs[1].tracked_unique = type_name(t)
               /\ Told(cycle_result.errs[1].conflicts) =
                      <<(<<cycle[1].name, cycle[1].signature.track_tracked_uniques[t]>>),
                        (<<cycle[2].name, cycle[2].signature.track_tracked_uniques[t]>>)>>

C8_Witness ==
    /\ Checked
    /\ Len(cycle) = 2
    /\ DifferentPlugins(cycle[1], cycle[2])
    /\ TrackedUniques(cycle[1]) = {TypeIdA}
    /\ TrackedUniques(cycle[2]) = {TypeIdA}
    /\ UpdatePacked(cycle[1]) = {}
    /\ UpdatePacked(cycle[2]) = {}
    /\ cycle_result.kind = "Err"
    /\ Len(cycle_result.errs) = 1

\* C9: a workload that tracks a unique, built twice from one plugin, gives
\* no conflict: the duplicate skip covers the tracked uniques too.
C9_DuplicateTrackedOk ==
    (/\ Checked
     /\ Len(cycle) = 2
     /\ SamePluginTwice(cycle[1], cycle[2])
     /\ TrackedUniques(cycle[1]) # {})
    => cycle_result.kind = "Ok"

C9_Witness ==
    /\ Checked
    /\ Len(cycle) = 2
    /\ SamePluginTwice(cycle[1], cycle[2])
    /\ TrackedUniques(cycle[1]) = {TypeIdA}
    /\ UpdatePacked(cycle[1]) = {}
    /\ cycle_result.kind = "Ok"

\* no storage is update-packed by two of the workloads, no unique tracked by two
PairwiseDisjoint ==
    \A i, j \in DOMAIN cycle :
        i # j =>
            /\ UpdatePacked(cycle[i]) \cap UpdatePacked(cycle[j]) = {}
            /\ TrackedUniques(cycle[i]) \cap TrackedUniques(cycle[j]) = {}

\* C10: workloads with pairwise disjoint tracked resources give Ok.
C10_DisjointOk ==
    (Checked /\ PairwiseDisjoint) => cycle_result.kind = "Ok"

C10_Witness ==
    /\ Checked
    /\ Len(cycle) = 2
    /\ PairwiseDisjoint
    /\ DifferentPlugins(cycle[1], cycle[2])
    /\ UpdatePacked(cycle[1]) # {}
    /\ TrackedUniques(cycle[1]) # {}
    /\ UpdatePacked(cycle[2]) # {}
    /\ cycle_result.kind = "Ok"

\* the names of the workloads given to add_cycle, in the order given
InputNames == [i \in DOMAIN cycle |-> cycle[i].name]

\* the workload at position i repeats the plugin of an earlier workload
RepeatsEarlierPlugin(i) ==
    /\ cycle[i].plugin_id.some
    /\ \E j \in DOMAIN cycle : j < i /\ cycle[j].plugin_id = cycle[i].plugin_id

\* C11: when add_cycle succeeds, the names of the composed cycle are the
\* names of all the workloads given, in the order given, those skipped as
\* duplicates included; every run of the cycle runs them in that order.
C11_NamesInInputOrder ==
    (Checked /\ cycle_result.kind = "Ok") =>
        /\ cycle_result.names = InputNames
        /\ \A k \in DOMAIN cycle_runs : cycle_runs[k] = InputNames

C11_Witness ==
    /\ Checked
    /\ cycle_result.kind = "Ok"
    /\ Len(cycle) = 2
    /\ RepeatsEarlierPlugin(2)
    /\ cycle[1].name = "RxA2"
    /\ cycle[2].name = "RxA1"
    /\ Len(cycle_runs) = 2
    /\ cycle_runs[2] = <<"RxA2", "RxA1">>

\* the positions of the workloads the walk counts, and among them those that
\* update-pack storage t, those that track unique t
Counted == {i \in DOMAIN cycle : ~RepeatsEarlierPlugin(i)}
UpdatePackers(t) == {i \in Counted : t \in UpdatePacked(cycle[i])}
UniqueTrackers(t) == {i \in Counted : t \in TrackedUniques(cycle[i])}

\* the positions in S, ascending
RECURSIVE Ascending(_)
Ascending(S) ==
    IF S = {} THEN <<>>
    ELSE LET m == CHOOSE x \in S : \A y \in S : x <= y
         IN  <<m>> \o Ascending(S \ {m})

\* the conflicts add_cycle owes: one per storage with more than one
\* update-packer, one per unique with more than one tracker, each listing
\* all of the workloads concerned with their claims
ConflictsOwed ==
    {[variant |-> "UpdatePackResetInMultipleWorkloads",
      resource |-> type_name(t),
      told |-> [k \in DOMAIN Ascending(UpdatePackers(t)) |->
                   <<cycle[Ascending(UpdatePackers(t))[k]].name,
                     cycle[Ascending(UpdatePackers(t))[k]].signature.track_update_packed[t]>>]] :
        t \in {x \in TypeIds : Cardinality(UpdatePackers(x)) > 1}}
    \cup
    {[variant |-> "TrackedUniqueResetInMultipleWorkloads",
      resource |-> type_name(t),
      told |-> [k \in DOMAIN Ascending(UniqueTrackers(t)) |->
                   <<cycle[Ascending(UniqueTrackers(t))[k]].name,
                     cycle[Ascending(UniqueTrackers(t))[k]].signature.track_tracked_uniques[t]>>]] :
        t \in {x \in TypeIds : Cardinality(UniqueTrackers(x)) > 1}}

\* what one reported conflict says
ConflictTold(e) ==
    [variant |-> e.variant,
     resource |-> IF e.variant = "UpdatePackResetInMultipleWorkloads"
                  THEN e.update_pack ELSE e.tracked_unique,
     told |-> Told(e.conflicts)]

\* C12: add_cycle reports all conflicts at once: exactly one for every
\* storage update-packed, and one for every unique tracked, by more than one
\* of the workloads it counts (a repeat of an earlier workload's plugin is
\* not a distinct unit), none for any other type; each conflict lists every
\* workload concerned with its claims.
C12_AllConflictsReported ==
    Checked =>
        /\ (cycle_result.kind = "Err") = (ConflictsOwed # {})
        /\ cycle_result.kind = "Err" =>
              /\ Len(cycle_result.errs) = Cardinality(ConflictsOwed)
              /\ {ConflictTold(cycle_result.errs[i]) : i \in DOMAIN cycle_result.errs}
                     = ConflictsOwed

C12_Witness ==
    /\ Checked
    /\ Len(cycle) = 2
    /\ Cardinality(ConflictsOwed) = 3
    /\ cycle_result.kind = "Err"
    /\ Len(cycle_result.errs) = 3

\* C13 as stated: whenever add_cycle returns Ok, no two workloads of the
\* cycle share a tracked resource.
C13_NoTwoUnitsShare ==
    (Checked /\ cycle_result.kind = "Ok") => PairwiseDisjoint

\* C13: whenever add_cycle returns Ok, no two workloads that the walk counted
\* (those that do not repeat the plugin of an earlier workload) share a
\* tracked resource; a workload and its repeats may share theirs.
C13_NoTwoCountedUnitsShare ==
    (Checked /\ cycle_result.kind = "Ok") =>
        \A i, j \in Counted :
            i # j =>
                /\ UpdatePacked(cycle[i]) \cap UpdatePacked(cycle[j]) = {}
                /\ TrackedUniques(cycle[i]) \cap TrackedUniques(cycle[j]) = {}

C13_Witness ==
    /\ Checked
    /\ cycle_result.kind = "Ok"
    /\ Len(cycle) = 2
    /\ Counted = {1, 2}
    /\ TrackedUniques(cycle[1]) # {}
    /\ UpdatePacked(cycle[2]) # {}

(***************************************************************************)
(* Properties of the AppBuilder operations (checked under Spec).           *)
(***************************************************************************)
\* the providers recorded for unique t so far
Providers(t) == IF t \in DOMAIN track_uniques THEN track_uniques[t] ELSE <<>>

\* what a call of add_unique does, whether or not t was provided before
ProvideInstalls ==
    \A o \in CurrentOps :
        (o.op = "add_unique" /\ AddUnique(o.type, o.value)) =>
            /\ phase' = "composing"
            /\ signal' = NoSignal
            /\ world'.uniques[o.type] = o.value
            /\ track_uniques'[o.type] = Providers(o.type) \o <<track_current_plugin>>

\* what finish does when some unique has several providers and none is unmet
FinishOnlyWarns ==
    (Finish /\ Unmet = {}) =>
        /\ phase' = "finished"
        /\ \A t \in DOMAIN track_uniques :
              Len(track_uniques[t]) > 1 => type_name(t) \in warn_log'

\* C14: providing a unique again never fails: each add_unique installs its
\* value in the world (so the world holds the last one), each is recorded as
\* a provider, and finish with several providers of a unique succeeds and
\* only warns.
C14_ProvideAgainOverwrites == [][ProvideInstalls /\ FinishOnlyWarns]_vars

\* what a call of depend_on_plugin does
DependChecksRecord ==
    \A o \in CurrentOps :
        (o.op = "depend_on_plugin" /\ DependOnPlugin(o.plugin, o.reason)) =>
            IF \E i \in DOMAIN trace_log : Last(trace_log[i]) = o.plugin
            THEN phase' = "composing" /\ signal' = NoSignal
            ELSE /\ phase' = "panicked"
                 /\ signal'.kind = "plugin dependency not added"
                 /\ signal'.plugin = o.plugin

\* C15: depend_on_plugin fails at once when the plugin is not in the
\* added-plugins record at the moment of the call, and succeeds when it is:
\* the plugin depended on must have been added before.
C15_DependOnPluginOrder == [][DependChecksRecord]_vars

C15_Witness ==
    /\ phase = "composing"
    /\ Len(trace_log) = 2
    /\ trace_log[1] = <<"RxA1">>
    /\ trace_log[2] = <<"NeedsRxA1">>

\* the systems of all stages, in the order the stages run them
RECURSIVE Flattened(_)
Flattened(ordered) ==
    IF ordered = <<>> THEN <<>>
    ELSE Head(ordered).systems \o Flattened(Tail(ordered))

\* the number of resets scheduled for storage t
ResetsScheduled(t) == Count(Flattened(stage_workloads), ClearSystem(t))

\* C16: only the first update_pack of a storage packs it and schedules its
\* reset; the later ones are recorded and schedule nothing: a storage has
\* one reset scheduled when it is claimed, none when it is not.
C16_OneResetPerStorage ==
    \A t \in TypeIds :
        /\ ResetsScheduled(t) = IF t \in DOMAIN track_update_packed THEN 1 ELSE 0
        /\ (t \in world.update_packed) = (t \in DOMAIN track_update_packed)

C16_Witness ==
    /\ TypeIdA \in DOMAIN track_update_packed
    /\ Len(track_update_packed[TypeIdA]) = 3
    /\ ResetsScheduled(TypeIdA) = 1
    /\ TypeIdA \in world.update_packed

IsReset(sys) == \E t \in TypeIds : sys = ClearSystem(t)

\* C17: in the app finish returns, every scheduled reset runs after every
\* system the plugins registered, whenever and in whatever stage they did.
C17_ResetsRunLast ==
    phase = "finished" =>
        LET run == Flattened(world.workloads)
        IN  \A i, j \in DOMAIN run :
                (IsReset(run[i]) /\ ~IsReset(run[j])) => j < i

\* C18: when a plugin's build fails inside add_plugin, the frame add_plugin
\* pushed is popped all the same: no frame is left on the identity stack.
C18_FrameRestoredOnFailure ==
    phase = "panicked" => track_current_plugin = <<>>

\* C19: a builder is composing until finish, and finished for ever after: no
\* registration and no second finish is possible on a finished builder.
C19_FinishedIsTerminal ==
    phase = "finished" => ~ENABLED Next

C19_Witness ==
    /\ phase = "finished"
    /\ top_ops < MaxTopOps
    /\ trace_log # <<>>

\* C20: the identity stack is the plugins whose build is in progress, outermost
\* first: a returning add_plugin leaves it as it found it, at any depth, and
\* it is empty whenever no add_plugin is in progress.
C20_IdentityRestored ==
    phase # "panicked" =>
        /\ track_current_plugin = [i \in DOMAIN callstack |-> callstack[i].plugin]
        /\ ~InBuild => track_current_plugin = <<>>

C20_Witness ==
    /\ phase = "composing"
    /\ ~InBuild
    /\ track_current_plugin = <<>>
    /\ \E i \in DOMAIN trace_log : trace_log[i] = <<"Outer", "Inner">>
    /\ \E i \in DOMAIN trace_log : trace_log[i] = <<"Outer">>

\* the plugins whose build is in progress, outermost first
PathInProgress == [i \in DOMAIN callstack |-> callstack[i].plugin]

\* the claims a ledger holds for type t
ClaimsOf(ledger, t) == IF t \in DOMAIN ledger THEN ledger[t] ELSE <<>>

\* every claim of the ledger is still there, in its place, after the step
ClaimsKept(before, after) ==
    \A t \in DOMAIN before :
        /\ Len(ClaimsOf(after, t)) >= Len(before[t])
        /\ SubSeq(ClaimsOf(after, t), 1, Len(before[t])) = before[t]

\* the claims the step added to the ledger
ClaimsAdded(before, after) ==
    UNION {{after[t][i] : i \in {k \in DOMAIN after[t] : k > Len(ClaimsOf(before, t))}} :
              t \in DOMAIN after}

LedgersKeepOwners ==
    /\ ClaimsKept(track_uniques, track_uniques')
    /\ ClaimsKept(track_unique_dependencies, track_unique_dependencies')
    /\ ClaimsKept(track_update_packed, track_update_packed')
    /\ \A owner \in ClaimsAdded(track_uniques, track_uniques') :
          owner = PathInProgress
    /\ \A claim \in ClaimsAdded(track_unique_dependencies, track_unique_dependencies')
                    \cup ClaimsAdded(track_update_packed, track_update_packed') :
          claim[1] = PathInProgress

\* C21: a claim recorded by add_unique, add_unique_dependency or update_pack
\* has as owner the path of the plugins being built at the call, outermost
\* first; no later step changes a recorded claim.
C21_OwnerIsPathAtCall == [][LedgersKeepOwners]_vars

C21_Witness ==
    /\ phase = "composing"
    /\ ~InBuild
    /\ TypeIdA \in DOMAIN track_unique_dependencies
    /\ track_unique_dependencies[TypeIdA] =
           <<(<<(<<"Outer", "Inner">>), "inner needs A">>), (<<(<<>>), "app needs it">>)>>
    /\ TypeIdB \in DOMAIN track_uniques
    /\ track_uniques[TypeIdB] = <<(<<"Outer", "Inner">>)>>

(***************************************************************************)
(* Properties of the association ledger (checked under SpecLedger).        *)
(***************************************************************************)
\* the types whose claim list the step made longer
Grown == {t \in LedgerTypes :
             Len(ClaimsOf(assoc_ledger'.buckets, t)) > Len(ClaimsOf(assoc_ledger.buckets, t))}

AssociateAppends ==
    assoc_ledger' # assoc_ledger =>
        /\ ClaimsKept(assoc_ledger.buckets, assoc_ledger'.buckets)
        /\ Cardinality(Grown) = 1
        /\ \A t \in Grown :
              /\ Len(assoc_ledger'.buckets[t]) = Len(ClaimsOf(assoc_ledger.buckets, t)) + 1
              /\ ledger_returned' =
                     IF ClaimsOf(assoc_ledger.buckets, t) = <<>>
                     THEN First
                     ELSE Nth(Len(assoc_ledger'.buckets[t]))
        /\ \A t \in LedgerTypes, claim \in LedgerClaims :
              Associate(t, claim) => Last(assoc_ledger'.buckets[t]) = claim

\* C22: associate appends the claim at the end of the type's list and
\* returns First exactly when the type had no claim in the ledger, else
\* Nth(k) with k the ordinal of the new claim; the claims already there stay
\* as they are, in their order.
C22_AssociateAppendsAndCounts == [][AssociateAppends]_vars

C22_Witness ==
    /\ TypeIdA \in DOMAIN assoc_ledger.buckets
    /\ TypeIdB \in DOMAIN assoc_ledger.buckets
    /\ Len(assoc_ledger.buckets[TypeIdA]) = 2
    /\ assoc_ledger.buckets[TypeIdA][1] # assoc_ledger.buckets[TypeIdA][2]
    /\ Len(assoc_ledger.buckets[TypeIdB]) = 1
    /\ ledger_returned = Nth(2)

\* the three ledgers of the builder
BuilderLedgers == {track_uniques, track_unique_dependencies, track_update_packed}

\* the unique types nobody has declared a dependency on
NeverDependedOn == {t \in TypeIds : t \notin DOMAIN track_unique_dependencies}

\* C23: a ledger has an entry only for a type that was claimed: no entry has
\* an empty claim list.  Asking for the claims of a type never claimed
\* gives the empty list and no error (finish asks for the dependents of every
\* provided unique), and a walk over a ledger's entries does not meet it.
C23_OnlyClaimedTypesHaveEntries ==
    /\ \A l \in BuilderLedgers : \A t \in DOMAIN l : l[t] # <<>>
    /\ \A rec \in unique_log :
          \A t \in TypeIds :
              type_name(t) = rec.name =>
                  /\ t \in DOMAIN track_uniques
                  /\ t \in NeverDependedOn => rec.depended_on_by = <<>>
                  /\ t \notin NeverDependedOn =>
                         rec.depended_on_by = track_unique_dependencies[t]
    /\ (FinishCalled /\ signal.kind # "unwrap on None") =>
          {rec.name : rec \in unique_log} = {type_name(t) : t \in DOMAIN track_uniques}

C23_Witness ==
    /\ phase = "finished"
    /\ DOMAIN track_uniques = {TypeIdA, TypeIdB}
    /\ DOMAIN track_unique_dependencies = {TypeIdB}
    /\ \E rec \in unique_log : rec.name = "A" /\ rec.depended_on_by = <<>>
    /\ \E rec \in unique_log : rec.name = "B" /\ Len(rec.depended_on_by) = 1

\* the types some call has passed to tracked_type_id_of so far: every claim
\* of a ledger was made through it
Encountered ==
    (DOMAIN track_uniques) \cup (DOMAIN track_unique_dependencies)
        \cup (DOMAIN track_update_packed)

RegistryHoldsEncountered ==
    \A t \in TypeIds :
        lookup_name(track_type_names, t) =
            IF t \in Encountered THEN Some(type_name(t)) ELSE None

RegistryGrows ==
    /\ \A t \in DOMAIN track_type_names :
          /\ t \in DOMAIN track_type_names'
          /\ track_type_names'[t] = track_type_names[t]
    /\ track_type_names' # track_type_names =>
          \E t \in TypeIds \ DOMAIN track_type_names :
              track_type_names' = Put(track_type_names, t, type_name(t))

\* C24: the type registry only grows: a type's display name is recorded when
\* the type is first met and the registry is left as it is when the type is
\* met again; no entry is removed or overwritten, and lookup_name gives
\* nothing for a type that was never met.
C24_RegistryOnlyGrows == []RegistryHoldsEncountered /\ [][RegistryGrows]_vars

C24_Witness ==
    /\ DOMAIN track_type_names = {TypeIdA, TypeIdEvents}
    /\ Len(ClaimsOf(track_update_packed, TypeIdA)) = 2
    /\ lookup_name(track_type_names, TypeIdB) = None
    /\ lookup_name(track_type_names, TypeIdEvents) = Some("Events<E>")

\* the two workloads of the cycle share a tracked resource
TwoShare ==
    \/ UpdatePacked(cycle[1]) \cap UpdatePacked(cycle[2]) # {}
    \/ TrackedUniques(cycle[1]) \cap TrackedUniques(cycle[2]) # {}

\* what a result says of the workloads in conflict: how many each conflict lists
ConflictSizes ==
    IF cycle_result.kind = "Err"
    THEN {Len(cycle_result.errs[i].conflicts) : i \in DOMAIN cycle_result.errs}
    ELSE {}

\* C25: add_cycle skips a workload for the plugin it was built from, not for
\* its name: of two workloads with different names and one plugin the second
\* is not counted, whatever it claims; two workloads with one name and
\* different plugins are both counted.
C25_SkipIsByPluginNotName ==
    (Checked /\ Len(cycle) = 2) =>
        /\ (/\ cycle[1].name # cycle[2].name
            /\ cycle[1].plugin_id.some
            /\ cycle[1].plugin_id = cycle[2].plugin_id)
           => cycle_result.kind = "Ok"
        /\ (/\ cycle[1].name = cycle[2].name
            /\ DifferentPlugins(cycle[1], cycle[2]))
           => /\ (cycle_result.kind = "Err") = TwoShare
              /\ ConflictSizes \subseteq {2}

C25_Witness ==
    /\ Checked
    /\ Len(cycle) = 2
    /\ cycle[1].name = cycle[2].name
    /\ DifferentPlugins(cycle[1], cycle[2])
    /\ TwoShare
    /\ cycle_result.kind = "Err"
    /\ ConflictSizes = {2}

\* the positions, in the input, of the counted workloads that claim the
\* resource a conflict is about
Claimers(e) ==
    IF e.variant = "UpdatePackResetInMultipleWorkloads"
    THEN {i \in Counted : \E t \in UpdatePacked(cycle[i]) : type_name(t) = e.update_pack}
    ELSE {i \in Counted : \E t \in TrackedUniques(cycle[i]) : type_name(t) = e.tracked_unique}

\* C26: in every conflict add_cycle returns, the workloads in conflict are
\* listed in the order in which they stand in the input, the first counted
\* workload that claims the resource first.
C26_ConflictsInInputOrder ==
    (Checked /\ cycle_result.kind = "Err") =>
        \A n \in DOMAIN cycle_result.errs :
            LET e == cycle_result.errs[n]
                at == Ascending(Claimers(e))
            IN  /\ Len(e.conflicts) = Len(at)
                /\ \A k \in DOMAIN at : e.conflicts[k].workload = cycle[at[k]].name

C26_Witness ==
    /\ Checked
    /\ cycle_result.kind = "Err"
    /\ Len(cycle) = 2
    /\ cycle[1].name = "RxA2"
    /\ cycle[2].name = "RxA1"
    /\ Len(cycle_result.errs) = 1
    /\ cycle_result.errs[1].conflicts[1].workload = "RxA2"
    /\ cycle_result.errs[1].conflicts[2].workload = "RxA1"

(***************************************************************************)
(* Properties of repeated add_cycle calls (checked under SpecAgain).       *)
(***************************************************************************)
\* the results add_cycle gives for the workloads ws on an App on which it
\* was never called
FirstCallResults(ws) ==
    LET st == Walk(WalkStart, ws)
    IN  {add_cycle_result(st, up_order, tu_order) :
            up_order \in Orders(Conflicting(st.cumulative_update_packed)),
            tu_order \in Orders(Conflicting(st.cumulative_tracked_uniques))}

\* C27: add_cycle keeps nothing from one call to the next: whatever calls
\* came before on the App, failed or not, the result for a list of workloads
\* is one it gives for that list on a fresh App.
C27_AddCycleStateless ==
    again_inputs # <<>> => again_result \in FirstCallResults(Last(again_inputs))

C27_Witness ==
    /\ Len(again_inputs) = 2
    /\ again_inputs[1] = <<Workload("RxA1", Some("TypeId(RxA1)"), {TypeIdA}, {}),
                           Workload("RxA2", Some("TypeId(RxA2)"), {TypeIdA}, {TypeIdA})>>
    /\ \A r \in FirstCallResults(again_inputs[1]) : r.kind = "Err"
    /\ again_inputs[2] = <<Workload("RxA1", Some("TypeId(RxA1)"), {TypeIdA}, {})>>
    /\ again_result.kind = "Ok"

(***************************************************************************)
(* Further properties of the AppBuilder (checked under Spec).              *)
(***************************************************************************)
\* the identity under which the first add_plugin of p to return was made
FirstAddedAs(p) ==
    trace_log[CHOOSE i \in DOMAIN trace_log :
                  /\ Last(trace_log[i]) = p
                  /\ \A j \in DOMAIN trace_log : Last(trace_log[j]) = p => i <= j]

TypesInProgress == {track_current_plugin[i] : i \in DOMAIN track_current_plugin}

\* C29: the identity stack holds no plugin type more than once, so the
\* nesting depth (one stack entry per build in progress) never exceeds the
\* number of distinct plugin types, which is what bounds a composition.
C29_DepthBoundedByTypes ==
    /\ Len(track_current_plugin) = Cardinality(TypesInProgress)
    /\ Len(track_current_plugin) <= Cardinality(Plugins)

\* the call a build in progress makes next is add_unique_dependency
DependencyCallNext(t, r) ==
    /\ InBuild
    /\ CurrentOps = {OpAddUniqueDependency(t, r)}

\* the add_unique_dependency call a build makes records its claim and returns
DependencyCallReturns ==
    \A t \in TypeIds, r \in {"inner needs A", "outer needs B", "needed before provided"} :
        (DependencyCallNext(t, r) /\ callstack' # callstack) =>
            /\ phase' = "composing"
            /\ signal' = signal
            /\ track_unique_dependencies' =
                   EntryPush(track_unique_dependencies, t, <<track_current_plugin, r>>)

\* every claimed dependency has a provider by the time finish is called
EveryDependencyProvided ==
    DOMAIN track_unique_dependencies \subseteq DOMAIN track_uniques

\* C30: add_unique_dependency<T> never fails at the call, with or without a
\* provider of T registered yet, and finish looks only at what is recorded
\* when it is called: it succeeds exactly if every type depended on has a
\* provider by then, also when the dependency was declared first.
C30_DependencyCheckedOnlyAtFinish ==
    /\ [][DependencyCallReturns]_vars
    /\ [](FinishCalled => (phase = "finished" <=> EveryDependencyProvided))

\* NeedsFirst declares its dependency on B and then provides B itself; with
\* no other provider of B the dependency was declared before any provider
C30_Witness ==
    /\ phase = "finished"
    /\ TypeIdB \in DOMAIN track_uniques
    /\ track_uniques[TypeIdB] = <<(<<"NeedsFirst">>)>>
    /\ <<(<<"NeedsFirst">>), "needed before provided">>
           \in Range(track_unique_dependencies[TypeIdB])

(***************************************************************************)
(* Stages (checked under Spec).                                            *)
(***************************************************************************)
StageNames(ordered) == [i \in DOMAIN ordered |-> ordered[i].name]

\* the step gave exactly the stage named stage_name one more system, system,
\* at the end, and left every other stage and the list of stages as they were
OnlyStageChanged(stage_name, system) ==
    /\ StageNames(stage_workloads') = StageNames(stage_workloads)
    /\ \E i \in DOMAIN stage_workloads :
          /\ stage_workloads[i].name = stage_name
          /\ stage_workloads'[i].systems = Append(stage_workloads[i].systems, system)
          /\ \A j \in DOMAIN stage_workloads :
                j # i => stage_workloads'[j] = stage_workloads[j]

\* a step that changes the stages is a call that names a known stage, and
\* changes that stage only
StageCallChangesOneStage ==
    stage_workloads' # stage_workloads =>
        /\ phase' = "composing"
        /\ \E o \in CurrentOps :
              \/ /\ o.op = "add_systems_to_stage"
                 /\ OnlyStageChanged(o.stage, <<o.system>>)
              \/ /\ o.op = "update_pack"
                 /\ OnlyStageChanged("LAST", ClearSystem(o.type))

\* the add_systems_to_stage call a build makes fails if it names a stage
\* that was never added
UnknownStageCallFails ==
    \A o \in CurrentOps :
        (/\ InBuild
         /\ o.op = "add_systems_to_stage"
         /\ o.stage \notin Range(StageNames(stage_workloads))
         /\ callstack' # callstack)
        => /\ phase' = "panicked"
           /\ signal' = [kind |-> "unknown stage", stage |-> o.stage]
           /\ stage_workloads' = stage_workloads

\* C31: add_systems_to_stage with a stage name that was never added fails
\* with 'unknown stage'; with a known stage it applies the function to the
\* workload builder of the stage of that name only, and the number, names
\* and order of the stages stay as they were.
C31_AddSystemsToNamedStageOnly ==
    /\ [][StageCallChangesOneStage /\ UnknownStageCallFails]_vars
    /\ [](/\ StageNames(stage_workloads) = DefaultStages
          /\ (phase = "panicked" /\ signal.kind = "unknown stage")
                 => signal.stage \notin Range(DefaultStages))

C31_Witness ==
    /\ phase = "panicked"
    /\ signal = [kind |-> "unknown stage", stage |-> "NO_SUCH_STAGE"]
    /\ \E i \in DOMAIN stage_workloads :
          /\ stage_workloads[i].name = "UPDATE"
          /\ stage_workloads[i].systems = <<(<<"sys">>)>>
    /\ \A i \in DOMAIN stage_workloads :
          stage_workloads[i].name # "UPDATE" => stage_workloads[i].systems = <<>>

(***************************************************************************)
(* Properties of a TrackedValue (checked under SpecTracked).               *)
(***************************************************************************)
\* the position of the latest access of the kind op, 0 if there was none
LatestAccess(op) ==
    LET at == {i \in DOMAIN tracked_ops : tracked_ops[i] = op}
    IN  IF at = {} THEN 0 ELSE CHOOSE i \in at : \A j \in at : j <= i

\* the state the accesses made so far call for
TrackedStateOwed ==
    IF LatestAccess("deref_mut") > LatestAccess("reset_tracking") THEN "Modified"
    ELSE IF LatestAccess("reset_tracking") > 0 THEN "NoChanges"
    ELSE "New"

\* C32: a TrackedValue is created New, a mutable dereference sets it to
\* Modified, reset_tracking sets it to NoChanges and an immutable dereference
\* leaves the state alone; so is_new_or_modified is true from creation or
\* from a mutable access until the next reset, and false from a reset until
\* the next mutable access.
C32_TrackedValueThreeStates ==
    /\ tracked_value.state = TrackedStateOwed
    /\ is_new_or_modified(tracked_value) <=>
           \/ LatestAccess("reset_tracking") = 0
           \/ LatestAccess("deref_mut") > LatestAccess("reset_tracking")

C32_Witness ==
    /\ tracked_ops = <<"deref", "reset_tracking", "deref", "deref_mut">>
    /\ is_new_or_modified(tracked_value)

(***************************************************************************)
(* Properties of UpdateOneToOne (checked under SpecOneToOne).              *)
(***************************************************************************)
\* the entities whose T was inserted or modified since the last reset
Changed(t) == inserted(t) \cup modified(t)

\* entity e has the same U, flagged the same, as before the call, or has
\* none as before
UnwrittenU(e) ==
    IF e \in DOMAIN upd_last.before.comps
    THEN /\ e \in DOMAIN vm_u.comps
         /\ vm_u.comps[e] = upd_last.before.comps[e]
         /\ vm_u.flags[e] = upd_last.before.flags[e]
    ELSE e \notin DOMAIN vm_u.comps

\* C33: after UpdateOneToOne::update every entity whose T was inserted or
\* modified has the U that update_fn computes from it, every entity whose T
\* was removed or deleted and is gone has no U, and a modified T whose
\* computed U equals the existing U leaves that U unwritten.
C33_UpdateMirrorsReadStorage ==
    upd_last.kind = "update" =>
        /\ \A e \in Changed(v_t) :
              /\ e \in DOMAIN vm_u.comps
              /\ vm_u.comps[e] = update_fn(e, v_t.comps[e])
        /\ \A e \in removed_or_deleted(v_t) \ DOMAIN v_t.comps :
              e \notin DOMAIN vm_u.comps
        /\ \A e \in modified(v_t) :
              (/\ e \in DOMAIN upd_last.before.comps
               /\ upd_last.before.comps[e] = update_fn(e, v_t.comps[e]))
              => UnwrittenU(e)

\* the entities for which update_fn_opt returns None
NoneFor(t) == {e \in Changed(t) : ~update_fn_opt(e, t.comps[e]).some}

\* the removed or deleted T take the U with them, whichever the call
RemovedLoseU ==
    upd_last.kind \in {"update_or_ignore", "update_or_delete"} =>
        \A e \in removed_or_deleted(v_t) : e \notin DOMAIN vm_u.comps

\* None deletes the U in update_or_delete
NoneDeletes ==
    upd_last.kind = "update_or_delete" =>
        \A e \in NoneFor(v_t) : e \notin DOMAIN vm_u.comps

DistinctNow == IF Len(upd_last.before) = 1 THEN <<v_t>> ELSE <<v_t, v_t2>>

\* before the call the entity had every component, each equal to the new one
HadEqual ==
    \A i \in DOMAIN upd_last.before :
        /\ upd_last.entity \in DOMAIN upd_last.before[i].comps
        /\ upd_last.before[i].comps[upd_last.entity] = upd_last.component[i]

\* after the call the entity has every new component, each flagged as written
AllWritten ==
    \A i \in DOMAIN upd_last.before :
        /\ upd_last.entity \in DOMAIN DistinctNow[i].comps
        /\ DistinctNow[i].comps[upd_last.entity] = upd_last.component[i]
        /\ DistinctNow[i].flags[upd_last.entity] \in {"inserted", "modified"}

\* C35: add_distinct inserts a component the entity does not have and
\* replaces one that differs, returning true; when the entity has an equal
\* one it writes nothing, marks nothing modified and returns false.  The
\* tuple forms return false only when the entity has every component and
\* all are equal, and otherwise write all the components.
C35_AddDistinctWritesOnlyDistinct ==
    upd_last.kind = "add_distinct" =>
        /\ upd_last.returned <=> ~HadEqual
        /\ upd_last.returned => AllWritten
        /\ ~upd_last.returned => DistinctNow = upd_last.before

\* the pair form wrote both components although one of them was equal
C35_Witness ==
    /\ upd_last.kind = "add_distinct"
    /\ Len(upd_last.before) = 2
    /\ upd_last.returned
    /\ upd_last.entity \in DOMAIN upd_last.before[1].comps
    /\ upd_last.before[1].comps[upd_last.entity] = upd_last.component[1]
    /\ upd_last.before[1].flags[upd_last.entity] = "clean"
    /\ v_t.flags[upd_last.entity] = "modified"

(***************************************************************************)
(* Properties of UpdateTwoToOne (checked under SpecTwoToOne).              *)
(***************************************************************************)
\* the entity has both read components
HasBoth(e) == e \in DOMAIN v_t.comps /\ e \in DOMAIN v_t2.comps

\* what update_fn makes of the read components of an entity that has both
TwoFn(e) == update_fn_two(e, v_t.comps[e], v_t2.comps[e])

\* the entities with a read component inserted or modified since the reset
ChangedTwo == Changed(v_t) \cup Changed(v_t2)

\* C36: after UpdateTwoToOne::update_or_delete an entity has no U if one of
\* T1, T2 is not present or update_fn returned None for it; an entity whose
\* T1 or T2 was inserted or modified and that has both has the U update_fn
\* computes, written only when it differs from the existing U.
C36_TwoToOneMirrorsReadStorages ==
    upd_last.kind = "two_to_one" =>
        /\ \A e \in Entities : ~HasBoth(e) => e \notin DOMAIN vm_u.comps
        /\ \A e \in ChangedTwo :
              (HasBoth(e) /\ ~TwoFn(e).some) => e \notin DOMAIN vm_u.comps
        /\ \A e \in ChangedTwo :
              (HasBoth(e) /\ TwoFn(e).some) =>
                  /\ e \in DOMAIN vm_u.comps
                  /\ vm_u.comps[e] = TwoFn(e).value
                  /\ (/\ e \in DOMAIN upd_last.before.comps
                      /\ upd_last.before.comps[e] = TwoFn(e).value)
                     => UnwrittenU(e)

\* the loop iterations of the latest call that handled entity e
HandledIn(e) == {i \in DOMAIN upd_last.log : upd_last.log[i].entity = e}

\* the phase that is to handle entity e, "none" if no phase is
PhaseOwed(e) ==
    IF e \in removed_or_deleted(v_t) \cup removed_or_deleted(v_t2) THEN "deleted"
    ELSE IF e \in inserted(v_t) \cup inserted(v_t2) THEN "inserted"
    ELSE IF e \in modified(v_t) \cup modified(v_t2) THEN "modified"
    ELSE "none"

NamesLookedUp ==
    {l.name : l \in unique_log}
        \cup (IF phase = "panicked" /\ signal.kind = "unmet unique dependencies"
              THEN {signal.lines[i].name : i \in DOMAIN signal.lines}
              ELSE {})

\* C38: every type that is a key of the providers, the dependents or the
\* tracked-resource ledger has its display name in the type registry, so no
\* name lookup of finish fails, whatever was registered and in which order.
C38_LedgerKeysAreNamed ==
    /\ \A ledger \in BuilderLedgers :
          \A t \in DOMAIN ledger :
              /\ t \in DOMAIN track_type_names
              /\ track_type_names[t] = type_name(t)
    /\ phase = "panicked" => signal.kind # "unwrap on None"
    /\ FinishCalled =>
          NamesLookedUp = {type_name(t) :
                              t \in DOMAIN track_uniques \cup DOMAIN track_unique_dependencies}

C38_Witness ==
    /\ phase = "finished"
    /\ Cardinality(NamesLookedUp) = 2
    /\ track_update_packed # EmptyMap
    /\ track_unique_dependencies # EmptyMap

(***************************************************************************)
(* The two ledgers of add_cycle (checked under SpecCycle).                 *)
(***************************************************************************)
\* the resources the result reports as in conflict, by kind of conflict
ReportedAs(variant) ==
    IF cycle_result.kind = "Err"
    THEN {IF variant = "UpdatePackResetInMultipleWorkloads"
          THEN cycle_result.errs[i].update_pack
          ELSE cycle_result.errs[i].tracked_unique :
             i \in {j \in DOMAIN cycle_result.errs : cycle_result.errs[j].variant = variant}}
    ELSE {}

\* the second workload is not a repetition of the plugin of the first
NotSamePlugin ==
    \/ ~cycle[1].plugin_id.some
    \/ ~cycle[2].plugin_id.some
    \/ cycle[1].plugin_id # cycle[2].plugin_id

\* C39: the tracked-storage ledger and the tracked-singleton ledger of
\* add_cycle are independent and a unit without plugin identity is never
\* skipped: a type update-packed by one unit and tracked as a singleton by
\* another is no conflict, and two units without identity that claim one
\* resource are both counted and in conflict, also under one name.
C39_LedgersIndependentAndNoneCounted ==
    (Checked /\ Len(cycle) = 2 /\ NotSamePlugin) =>
        /\ ReportedAs("UpdatePackResetInMultipleWorkloads") =
               {type_name(t) : t \in UpdatePacked(cycle[1]) \cap UpdatePacked(cycle[2])}
        /\ ReportedAs("TrackedUniqueResetInMultipleWorkloads") =
               {type_name(t) : t \in TrackedUniques(cycle[1]) \cap TrackedUniques(cycle[2])}
        /\ ConflictSizes \subseteq {2}

\* two units without identity and of one name: B, update-packed by both, is
\* in conflict; A, update-packed by one and tracked by the other, is not
C39_Witness ==
    /\ Checked
    /\ Len(cycle) = 2
    /\ cycle[1].plugin_id = None
    /\ cycle[2].plugin_id = None
    /\ cycle[1].name = cycle[2].name
    /\ UpdatePacked(cycle[1]) = {TypeIdA, TypeIdB}
    /\ TrackedUniques(cycle[1]) = {}
    /\ UpdatePacked(cycle[2]) = {TypeIdB}
    /\ TrackedUniques(cycle[2]) = {TypeIdA}
    /\ cycle_result.kind = "Err"
    /\ Len(cycle_result.errs) = 1

====
